---- MODULE Spec2Model ----
(***************************************************************************)
(* A state-machine model of the browser music player:                      *)
(*   - the localStorage persistence service (saveAudioFile .. validate),   *)
(*   - the AudioUploader component's handleFiles,                          *)
(*   - the useAudioPlayer hook over its audio element,                     *)
(*   - the AudioPlayer component's previous/next handlers.                 *)
(*   - the App component's track handlers,                                 *)
(*   - the AudioContextManager singleton over the Web Audio graph,         *)
(*   - saveAudioFile calls overlapping at their awaits.                    *)
(* Each part has its own specification over its own variables; the other   *)
(* parts' variables stay at their initial values in it.                    *)
(***************************************************************************)
EXTENDS Integers, Sequences, FiniteSets, TLC

VARIABLES
  ls,      \* localStorage
  nextId,  \* the next id generateId returns
  last,    \* the storage service's last call and its outcome
  up,      \* the AudioUploader component during handleFiles
  st,      \* the state of the useAudioPlayer hook
  audio,   \* the audio element of the hook
  hlast,   \* the hook's last call or event
  ap,      \* the props of the AudioPlayer component
  aplast,  \* the AudioPlayer component's last handler
  app,     \* the App component: the displayed tracks and the tracks in storage
  alast,   \* the App component's last handler
  mgr,     \* the fields of the AudioContextManager singleton
  web,     \* the Web Audio objects made so far: contexts, nodes, connections
  mlast,   \* the manager's last call and its outcome
  calls    \* the saveAudioFile calls in progress, each at one of its awaits

storeVars == <<ls, nextId, last>>

\* What each part leaves alone.
managerVars == <<mgr, web, mlast>>
notSaves == <<up, st, audio, hlast, ap, aplast, app, alast, managerVars>>
notStore == <<calls, notSaves>>
notUpload == <<calls, st, audio, hlast, ap, aplast, app, alast, managerVars>>
notPlayer == <<calls, ls, nextId, last, up, ap, aplast, app, alast, managerVars>>
notAudioPlayer == <<calls, ls, nextId, last, up, st, audio, hlast, app, alast, managerVars>>
notApp == <<calls, ls, nextId, last, up, ap, aplast, managerVars>>
notManager == <<calls, ls, nextId, last, up, st, audio, hlast, ap, aplast, app, alast>>

\* JavaScript's null, and the absence of a thrown error.
Null == "null"

\* JavaScript's NaN among the numbers: a value outside every range used.
NaN == -999

isNaN(x) == x = NaN

\* Math.max and Math.min of two numbers: NaN when either is NaN.
MathMax(a, b) == IF isNaN(a) \/ isNaN(b) THEN NaN ELSE IF a >= b THEN a ELSE b

MathMin(a, b) == IF isNaN(a) \/ isNaN(b) THEN NaN ELSE IF a <= b THEN a ELSE b

(***************************************************************************)
(* Bounds of the model.                                                    *)
(***************************************************************************)
\* Characters the origin's localStorage holds before setItem throws
\* QuotaExceededError (browsers allow millions; the model is scaled down).
QuotaChars == 180
\* Number of ids generateId hands out in one behaviour.
MaxIds == 2
\* Characters held under keys of the origin that are not the player's.
ForeignLen == 50

(***************************************************************************)
(* Program constants.                                                      *)
(***************************************************************************)
\* '__storage_test__' is written under the key '__storage_test__': 16 + 16.
ProbeLen == 32
\* getStorageInfo's estimate of the localStorage limit, 10 * 1024 * 1024.
TotalEstimate == 10485760
\* validateAudioFile's maxSize, 50 * 1024 * 1024.
MaxFileSize == 52428800

STORAGE_KEYS == {"AUDIO_FILES", "CURRENT_PLAYLIST", "PLAYBACK_STATE", "USER_PREFERENCES"}

(***************************************************************************)
(* localStorage.  ls.item[k] is the string held under key k, kept as the   *)
(* value it parses to:                                                     *)
(*   t = "none"    no item (getItem returns null),                         *)
(*   t = "json"    the JSON text of v,                                     *)
(*   t = "corrupt" a string JSON.parse rejects;                            *)
(* n is the string's length.  ls.blocked: every access to localStorage     *)
(* throws (storage disabled for the origin).  ls.foreign: the characters   *)
(* held under other keys.                                                  *)
(***************************************************************************)
NoItem == [t |-> "none", v |-> <<>>, n |-> 0]
CorruptItem == [t |-> "corrupt", v |-> <<>>, n |-> 1]

RECURSIVE SumLen(_)
SumLen(s) == IF s = <<>> THEN 0 ELSE Head(s).len + SumLen(Tail(s))

\* Length of JSON.stringify of a list of audio-file entries: the brackets and
\* each entry's text (dominated by its base64 data).
FilesJsonLen(list) == 2 + SumLen(list)

\* readAsDataURL: base64 holds 4 characters for every 3 bytes, padded.
Base64Len(size) == 4 * ((size + 2) \div 3)

\* JSON.stringify writes a non-finite number as null.
JsonNumber(d) == IF d \in {"Infinity", "NaN"} THEN Null ELSE d

\* JSON.parse(JSON.stringify(audioFile)).
JsonRoundTrip(e) == [e EXCEPT !.duration = JsonNumber(@)]

\* { ...a, ...b }
Spread(a, b) == [k \in (DOMAIN a) \cup (DOMAIN b) |-> IF k \in DOMAIN b THEN b[k] ELSE a[k]]

\* What localStorage holds, in characters of values (keys are not counted).
StoredChars(s) ==
  s.foreign + s.item["AUDIO_FILES"].n + s.item["CURRENT_PLAYLIST"].n
            + s.item["PLAYBACK_STATE"].n + s.item["USER_PREFERENCES"].n

\* localStorage.setItem(k, a string of n characters) returns normally.
SetItemOk(s, k, n) ==
  /\ ~s.blocked
  /\ StoredChars(s) - s.item[k].n + n <= QuotaChars

SetItem(s, k, item) == [s EXCEPT !.item[k] = item]

\* localStorage.removeItem / getItem return normally.
AccessOk(s) == ~s.blocked

checkStorageAvailability(s) ==
  /\ ~s.blocked
  /\ StoredChars(s) + ProbeLen <= QuotaChars

getStorageInfo(s) ==
  IF ~checkStorageAvailability(s)
  THEN [used |-> 0, available |-> 0, total |-> 0]
  ELSE [used |-> StoredChars(s),
        available |-> TotalEstimate - StoredChars(s),
        total |-> TotalEstimate]

\* A getter's result: ret, and whether an exception left the function.
Ret(v) == [threw |-> FALSE, ret |-> v]

getAudioFiles(s) ==
  IF ~checkStorageAvailability(s) THEN Ret(<<>>)
  ELSE IF s.item["AUDIO_FILES"].t = "json" THEN Ret(s.item["AUDIO_FILES"].v)
  ELSE Ret(<<>>)

IndexOfId(list, id) ==
  IF \E i \in 1..Len(list) : list[i].id = id
  THEN CHOOSE i \in 1..Len(list) : list[i].id = id /\ \A j \in 1..(i - 1) : list[j].id # id
  ELSE 0

\* null is kept as the sequence <<>>, a found entry as <<entry>>.
getAudioFile(s, id) ==
  LET files == getAudioFiles(s).ret
      i == IndexOfId(files, id)
  IN  IF i = 0 THEN <<>> ELSE <<files[i]>>

getPlaylistState(s) ==
  IF ~AccessOk(s) THEN Ret(<<>>)
  ELSE IF s.item["CURRENT_PLAYLIST"].t = "json" THEN Ret(s.item["CURRENT_PLAYLIST"].v)
  ELSE Ret(<<>>)

\* null is kept as <<>>, a stored state as <<state>>.
getPlaybackState(s) ==
  IF ~AccessOk(s) THEN Ret(<<>>)
  ELSE IF s.item["PLAYBACK_STATE"].t = "json" THEN Ret(s.item["PLAYBACK_STATE"].v)
  ELSE Ret(<<>>)

DefaultPreferences == [volume |-> 1, shuffle |-> FALSE, repeat |-> "none", theme |-> "dark"]

getUserPreferences(s) ==
  IF ~AccessOk(s) THEN Ret(DefaultPreferences)
  ELSE IF s.item["USER_PREFERENCES"].t = "json" THEN Ret(s.item["USER_PREFERENCES"].v[1])
  ELSE Ret(DefaultPreferences)

(***************************************************************************)
(* Files handed to the service.  blob: the argument is a File (a Blob);    *)
(* readable: FileReader loads it; decodable: the Audio element reaches     *)
(* loadedmetadata; duration: audio.duration then.                          *)
(***************************************************************************)
validTypes == {"audio/mpeg", "audio/mp3", "audio/wav", "audio/ogg", "audio/aac", "audio/m4a"}
validExtensions == {"mp3", "wav", "ogg", "aac", "m4a"}

\* validateAudioFile with the size limit tested before the type.
validateAudioFile_SizeFirst(s, file) ==
  IF file.size > MaxFileSize
  THEN [valid |-> FALSE, error |-> "File size too large (max 50MB)"]
  ELSE IF file.type \notin validTypes /\ file.ext \notin validExtensions
  THEN [valid |-> FALSE, error |-> "Invalid audio file type"]
  ELSE IF file.size > getStorageInfo(s).available
  THEN [valid |-> FALSE, error |-> "Not enough storage space available"]
  ELSE [valid |-> TRUE, error |-> Null]

validateAudioFile(s, file) ==
  IF file.type \notin validTypes /\ file.ext \notin validExtensions
  THEN [valid |-> FALSE, error |-> "Invalid audio file type"]
  ELSE IF file.size > MaxFileSize
  THEN [valid |-> FALSE, error |-> "File size too large (max 50MB)"]
  ELSE IF file.size > getStorageInfo(s).available
  THEN [valid |-> FALSE, error |-> "Not enough storage space available"]
  ELSE [valid |-> TRUE, error |-> Null]

\* extractMetadata: duration is audio.duration, or 0 after the element's error.
extractMetadata(file) == IF file.decodable THEN file.duration ELSE "0"

\* The asynchronous part of saveAudioFile up to generateId: the awaits either
\* yield the new entry or reject (FileReader fails, or the argument is no Blob
\* and readAsDataURL throws a TypeError).
fileToBase64Ok(file) == file.blob /\ file.readable

NewAudioFile(file, id) ==
  [id |-> id, len |-> Base64Len(file.size), duration |-> extractMetadata(file),
   playCount |-> 0, lastPlayed |-> Null]

\* saveAudioFile without its availability check before the try block.
saveAudioFile_NoProbe(s, file, id) ==
  IF ~fileToBase64Ok(file)
  THEN [ok |-> FALSE, err |-> "Failed to save audio file: ", ret |-> <<>>, store |-> s]
  ELSE LET audioFile == NewAudioFile(file, id)
           existingFiles == getAudioFiles(s).ret
           updatedFiles == Append(existingFiles, JsonRoundTrip(audioFile))
           n == FilesJsonLen(updatedFiles)
       IN  IF SetItemOk(s, "AUDIO_FILES", n)
           THEN [ok |-> TRUE, err |-> Null, ret |-> <<audioFile>>,
                 store |-> SetItem(s, "AUDIO_FILES", [t |-> "json", v |-> updatedFiles, n |-> n])]
           ELSE [ok |-> FALSE, err |-> "Failed to save audio file: ", ret |-> <<>>, store |-> s]

\* saveAudioFile(file) run to its end with generateId() = id:
\* ok, the Error message when it throws, the returned object, the store after.
saveAudioFile(s, file, id) ==
  IF ~checkStorageAvailability(s)
  THEN [ok |-> FALSE, err |-> "LocalStorage is not available", ret |-> <<>>, store |-> s]
  ELSE IF ~fileToBase64Ok(file)
  THEN [ok |-> FALSE, err |-> "Failed to save audio file: ", ret |-> <<>>, store |-> s]
  ELSE LET audioFile == NewAudioFile(file, id)
           existingFiles == getAudioFiles(s).ret
           updatedFiles == Append(existingFiles, JsonRoundTrip(audioFile))
           n == FilesJsonLen(updatedFiles)
       IN  IF SetItemOk(s, "AUDIO_FILES", n)
           THEN [ok |-> TRUE, err |-> Null, ret |-> <<audioFile>>,
                 store |-> SetItem(s, "AUDIO_FILES", [t |-> "json", v |-> updatedFiles, n |-> n])]
           ELSE [ok |-> FALSE, err |-> "Failed to save audio file: ", ret |-> <<>>, store |-> s]

RECURSIVE FilterOutId(_, _)
FilterOutId(list, id) ==
  IF list = <<>> THEN <<>>
  ELSE IF Head(list).id # id THEN <<Head(list)>> \o FilterOutId(Tail(list), id)
  ELSE FilterOutId(Tail(list), id)

deleteAudioFile(s, id) ==
  LET files == getAudioFiles(s).ret
      updatedFiles == FilterOutId(files, id)
      n == FilesJsonLen(updatedFiles)
  IN  IF SetItemOk(s, "AUDIO_FILES", n)
      THEN [threw |-> FALSE, ret |-> TRUE,
            store |-> SetItem(s, "AUDIO_FILES", [t |-> "json", v |-> updatedFiles, n |-> n])]
      ELSE [threw |-> FALSE, ret |-> FALSE, store |-> s]

updateAudioFile(s, id, updates) ==
  LET files == getAudioFiles(s).ret
      fileIndex == IndexOfId(files, id)
  IN  IF fileIndex = 0 THEN [threw |-> FALSE, ret |-> FALSE, store |-> s]
      ELSE LET updated == [files EXCEPT ![fileIndex] = Spread(@, updates)]
               n == FilesJsonLen(updated)
           IN  IF SetItemOk(s, "AUDIO_FILES", n)
               THEN [threw |-> FALSE, ret |-> TRUE,
                     store |-> SetItem(s, "AUDIO_FILES", [t |-> "json", v |-> updated, n |-> n])]
               ELSE [threw |-> FALSE, ret |-> FALSE, store |-> s]

\* A playlist argument: its items; circular: JSON.stringify throws on it;
\* undefined: JSON.stringify returns undefined and "undefined" is stored.
PlaylistJsonLen(p) == 2 + 10 * Len(p.items)

\* savePlaylistState with JSON.stringify outside the try block.
savePlaylistState_NoCatch(s, p) ==
  IF p.circular THEN [threw |-> TRUE, ret |-> FALSE, store |-> s]
  ELSE LET item == IF p.undefined THEN [t |-> "corrupt", v |-> <<>>, n |-> 9]
                   ELSE [t |-> "json", v |-> p.items, n |-> 2 + 10 * Len(p.items)]
       IN  IF SetItemOk(s, "CURRENT_PLAYLIST", item.n)
           THEN [threw |-> FALSE, ret |-> TRUE, store |-> SetItem(s, "CURRENT_PLAYLIST", item)]
           ELSE [threw |-> FALSE, ret |-> FALSE, store |-> s]

savePlaylistState(s, p) ==
  IF p.circular THEN [threw |-> FALSE, ret |-> FALSE, store |-> s]
  ELSE LET item == IF p.undefined THEN [t |-> "corrupt", v |-> <<>>, n |-> 9]
                   ELSE [t |-> "json", v |-> p.items, n |-> PlaylistJsonLen(p)]
       IN  IF SetItemOk(s, "CURRENT_PLAYLIST", item.n)
           THEN [threw |-> FALSE, ret |-> TRUE, store |-> SetItem(s, "CURRENT_PLAYLIST", item)]
           ELSE [threw |-> FALSE, ret |-> FALSE, store |-> s]

PlaybackJsonLen == 20

savePlaybackState(s, state) ==
  LET item == [t |-> "json", v |-> <<Spread(state, [timestamp |-> "now"])>>, n |-> PlaybackJsonLen]
  IN  IF SetItemOk(s, "PLAYBACK_STATE", item.n)
      THEN [threw |-> FALSE, ret |-> TRUE, store |-> SetItem(s, "PLAYBACK_STATE", item)]
      ELSE [threw |-> FALSE, ret |-> FALSE, store |-> s]

PreferencesJsonLen == 20

saveUserPreferences(s, preferences) ==
  LET existing == getUserPreferences(s).ret
      updated == Spread(existing, preferences)
      item == [t |-> "json", v |-> <<updated>>, n |-> PreferencesJsonLen]
  IN  IF SetItemOk(s, "USER_PREFERENCES", item.n)
      THEN [threw |-> FALSE, ret |-> TRUE, store |-> SetItem(s, "USER_PREFERENCES", item)]
      ELSE [threw |-> FALSE, ret |-> FALSE, store |-> s]

clearAllData(s) ==
  IF AccessOk(s)
  THEN [threw |-> FALSE, ret |-> TRUE,
        store |-> [s EXCEPT !.item = [k \in STORAGE_KEYS |-> NoItem]]]
  ELSE [threw |-> FALSE, ret |-> FALSE, store |-> s]

(***************************************************************************)
(* Inputs of the storage service.                                          *)
(***************************************************************************)
AudioFileInput(size, duration, blob, readable, decodable) ==
  [type |-> "audio/mpeg", ext |-> "mp3", size |-> size, duration |-> duration,
   blob |-> blob, readable |-> readable, decodable |-> decodable]

\* A short file, a longer one whose duration the browser reports as Infinity,
\* one FileReader cannot read, and an argument that is no Blob.
SaveInputs ==
  { AudioFileInput(30, "180", TRUE, TRUE, TRUE),
    AudioFileInput(60, "Infinity", TRUE, TRUE, TRUE),
    AudioFileInput(30, "180", TRUE, FALSE, TRUE),
    AudioFileInput(30, "180", FALSE, TRUE, TRUE) }

UpdateInputs == { [playCount |-> 1, lastPlayed |-> "t1"] }

PlaylistInputs ==
  { [items |-> <<1, 2>>, circular |-> FALSE, undefined |-> FALSE],
    [items |-> <<>>, circular |-> TRUE, undefined |-> FALSE],
    [items |-> <<>>, circular |-> FALSE, undefined |-> TRUE] }

PlaybackInputs == { [trackId |-> 1, position |-> 5] }

PreferenceInputs == { [volume |-> 0, theme |-> "light"] }

Ids == 1..MaxIds

(***************************************************************************)
(* The storage service's operations as steps.  last records the call and   *)
(* its outcome, and pre the store it was made on.                          *)
(***************************************************************************)
InitStore ==
  /\ ls \in { [blocked |-> b, foreign |-> f, item |-> [k \in STORAGE_KEYS |-> it]] :
                b \in BOOLEAN, f \in {0, ForeignLen}, it \in {NoItem, CorruptItem} }
  /\ nextId = 1
  /\ last = [op |-> "init", pre |-> ls]

\* generateId: a fresh id for every call (Date.now() and Math.random() joined).
generateId == nextId

SaveAudioFile(file) ==
  /\ nextId <= MaxIds
  /\ LET r == saveAudioFile(ls, file, generateId)
     IN  /\ ls' = r.store
         /\ nextId' = IF r.ok THEN nextId + 1 ELSE nextId
         /\ last' = [op |-> "saveAudioFile", file |-> file, ok |-> r.ok, err |-> r.err,
                     ret |-> r.ret, pre |-> ls]
  /\ UNCHANGED notStore

DeleteAudioFile(id) ==
  LET r == deleteAudioFile(ls, id)
  IN  /\ ls' = r.store
      /\ last' = [op |-> "deleteAudioFile", id |-> id, threw |-> r.threw, ret |-> r.ret, pre |-> ls]
      /\ UNCHANGED <<nextId, notStore>>

UpdateAudioFile(id, updates) ==
  LET r == updateAudioFile(ls, id, updates)
  IN  /\ ls' = r.store
      /\ last' = [op |-> "updateAudioFile", id |-> id, updates |-> updates, threw |-> r.threw, ret |-> r.ret, pre |-> ls]
      /\ UNCHANGED <<nextId, notStore>>

SavePlaylistState(p) ==
  LET r == savePlaylistState(ls, p)
  IN  /\ ls' = r.store
      /\ last' = [op |-> "savePlaylistState", p |-> p, threw |-> r.threw, ret |-> r.ret, pre |-> ls]
      /\ UNCHANGED <<nextId, notStore>>

SavePlaybackState(state) ==
  LET r == savePlaybackState(ls, state)
  IN  /\ ls' = r.store
      /\ last' = [op |-> "savePlaybackState", threw |-> r.threw, ret |-> r.ret, pre |-> ls]
      /\ UNCHANGED <<nextId, notStore>>

SaveUserPreferences(preferences) ==
  LET r == saveUserPreferences(ls, preferences)
  IN  /\ ls' = r.store
      /\ last' = [op |-> "saveUserPreferences", preferences |-> preferences, threw |-> r.threw, ret |-> r.ret, pre |-> ls]
      /\ UNCHANGED <<nextId, notStore>>

ClearAllData ==
  LET r == clearAllData(ls)
  IN  /\ ls' = r.store
      /\ last' = [op |-> "clearAllData", threw |-> r.threw, ret |-> r.ret, pre |-> ls]
      /\ UNCHANGED <<nextId, notStore>>

\* The getters and the validator leave the store as it is.
GetAudioFiles ==
  /\ last' = [op |-> "getAudioFiles", threw |-> getAudioFiles(ls).threw,
              ret |-> getAudioFiles(ls).ret, pre |-> ls]
  /\ UNCHANGED <<ls, nextId, notStore>>

GetPlaylistState ==
  /\ last' = [op |-> "getPlaylistState", threw |-> getPlaylistState(ls).threw,
              ret |-> getPlaylistState(ls).ret, pre |-> ls]
  /\ UNCHANGED <<ls, nextId, notStore>>

GetPlaybackState ==
  /\ last' = [op |-> "getPlaybackState", threw |-> getPlaybackState(ls).threw,
              ret |-> getPlaybackState(ls).ret, pre |-> ls]
  /\ UNCHANGED <<ls, nextId, notStore>>

GetUserPreferences ==
  /\ last' = [op |-> "getUserPreferences", threw |-> getUserPreferences(ls).threw,
              ret |-> getUserPreferences(ls).ret, pre |-> ls]
  /\ UNCHANGED <<ls, nextId, notStore>>

GetStorageInfo ==
  /\ last' = [op |-> "getStorageInfo", ret |-> getStorageInfo(ls), pre |-> ls]
  /\ UNCHANGED <<ls, nextId, notStore>>

ValidateAudioFile(file) ==
  /\ last' = [op |-> "validateAudioFile", file |-> file, ret |-> validateAudioFile(ls, file),
              pre |-> ls]
  /\ UNCHANGED <<ls, nextId, notStore>>

\* Files offered to validateAudioFile: a supported type and name, a supported
\* name only, a supported type only, neither; sizes around both limits.
ValidateInputs ==
  { [type |-> ty.type, ext |-> ty.ext, size |-> sz, duration |-> "180",
     blob |-> TRUE, readable |-> TRUE, decodable |-> TRUE] :
      ty \in { [type |-> "audio/mpeg", ext |-> "mp3"], [type |-> "", ext |-> "aac"],
               [type |-> "audio/wav", ext |-> "bin"], [type |-> "text/plain", ext |-> "txt"] },
      sz \in { 30, TotalEstimate - 81, MaxFileSize + 1 } }

StoreNext ==
  \/ \E file \in SaveInputs : SaveAudioFile(file)
  \/ \E id \in Ids : DeleteAudioFile(id)
  \/ \E id \in Ids, updates \in UpdateInputs : UpdateAudioFile(id, updates)
  \/ \E p \in PlaylistInputs : SavePlaylistState(p)
  \/ \E state \in PlaybackInputs : SavePlaybackState(state)
  \/ \E preferences \in PreferenceInputs : SaveUserPreferences(preferences)
  \/ ClearAllData
  \/ GetAudioFiles
  \/ GetPlaylistState
  \/ GetPlaybackState
  \/ GetUserPreferences
  \/ GetStorageInfo
  \/ \E file \in ValidateInputs : ValidateAudioFile(file)

(***************************************************************************)
(* saveAudioFile as the asynchronous function it is.  A call runs to its   *)
(* first await, is resumed when fileToBase64 settles, runs to its second   *)
(* await, and is resumed when extractMetadata settles; between two awaits  *)
(* nothing else runs.  calls[c].pc is where call c stands:                 *)
(*   "idle"            not made yet,                                       *)
(*   "fileToBase64"    awaiting the FileReader,                            *)
(*   "extractMetadata" awaiting the Audio element,                         *)
(*   "returned"        its promise fulfilled with calls[c].ret,            *)
(*   "threw"           its promise rejected with the Error calls[c].err.   *)
(* calls[c].during: the calls that stood at an await when c was made.      *)
(***************************************************************************)
\* saveAudioFile calls made in one run of the model.
MaxCalls == 2

Callers == 1..MaxCalls

IdleCall == [pc |-> "idle", file |-> <<>>, err |-> Null, ret |-> <<>>, during |-> {}]

NoCalls == calls = [c \in Callers |-> IdleCall]

Awaiting(c) == calls[c].pc \in {"fileToBase64", "extractMetadata"}

\* The files of SaveInputs and a longer one.
OverlapInputs == SaveInputs \cup { AudioFileInput(75, "180", TRUE, TRUE, TRUE) }

\* saveAudioFile from generateId() to its end, entered when both awaits have
\* yielded: the returned object or the Error, and the store after.
storeAudioFile(s, file, id) ==
  LET audioFile == NewAudioFile(file, id)
      existingFiles == getAudioFiles(s).ret
      updatedFiles == Append(existingFiles, JsonRoundTrip(audioFile))
      n == FilesJsonLen(updatedFiles)
  IN  IF SetItemOk(s, "AUDIO_FILES", n)
      THEN [ok |-> TRUE, err |-> Null, ret |-> <<audioFile>>,
            store |-> SetItem(s, "AUDIO_FILES", [t |-> "json", v |-> updatedFiles, n |-> n])]
      ELSE [ok |-> FALSE, err |-> "Failed to save audio file: ", ret |-> <<>>, store |-> s]

\* saveAudioFile(file) is called: the availability check, then fileToBase64
\* is started.  Calls are numbered in the order they are made.
CallSaveAudioFile(c, file) ==
  /\ calls[c].pc = "idle"
  /\ \A d \in Callers : d < c => calls[d].pc # "idle"
  /\ calls' = [calls EXCEPT ![c] =
                 IF ~checkStorageAvailability(ls)
                 THEN [IdleCall EXCEPT !.pc = "threw", !.file = <<file>>,
                                       !.err = "LocalStorage is not available"]
                 ELSE [IdleCall EXCEPT !.pc = "fileToBase64", !.file = <<file>>,
                                       !.during = {d \in Callers : Awaiting(d)}]]
  /\ UNCHANGED <<ls, nextId, last, notSaves>>

\* fileToBase64 settles: the call goes on to extractMetadata, or the catch
\* block rethrows the rejection.
FileToBase64Settled(c) ==
  /\ calls[c].pc = "fileToBase64"
  /\ calls' = [calls EXCEPT ![c] =
                 IF fileToBase64Ok(calls[c].file[1])
                 THEN [@ EXCEPT !.pc = "extractMetadata"]
                 ELSE [@ EXCEPT !.pc = "threw", !.err = "Failed to save audio file: "]]
  /\ UNCHANGED <<ls, nextId, last, notSaves>>

\* extractMetadata settles (it always resolves): the rest of the function
\* runs in one piece.
ExtractMetadataSettled(c) ==
  /\ calls[c].pc = "extractMetadata"
  /\ LET r == storeAudioFile(ls, calls[c].file[1], generateId)
     IN  /\ ls' = r.store
         /\ nextId' = nextId + 1
         /\ calls' = [calls EXCEPT ![c] =
                        IF r.ok THEN [@ EXCEPT !.pc = "returned", !.ret = r.ret]
                        ELSE [@ EXCEPT !.pc = "threw", !.err = r.err]]
  /\ UNCHANGED <<last, notSaves>>

SavesNext ==
  \/ \E c \in Callers, file \in OverlapInputs : CallSaveAudioFile(c, file)
  \/ \E c \in Callers : FileToBase64Settled(c)
  \/ \E c \in Callers : ExtractMetadataSettled(c)

(***************************************************************************)
(* AudioUploader.handleFiles.  up.pc is where the asynchronous function    *)
(* stands: "idle" (not running), "processing" (awaiting processAudioFile), *)
(* "saving" (awaiting saveAudioFile).  up.completed lists the arguments    *)
(* onUploadComplete was called with during the last run.                   *)
(***************************************************************************)
\* Files handleFiles takes before its run is cut off in the model.
MaxFiles == 2

supportedFormats == {"audio/mpeg", "audio/mp3", "audio/wav", "audio/ogg", "audio/m4a"}
supportedExtensions == {"mp3", "wav", "ogg", "m4a"}

validateFile(file) ==
  IF file.type \notin supportedFormats /\ file.ext \notin supportedExtensions
  THEN [valid |-> FALSE, error |-> "Unsupported file format. Please upload MP3, WAV, OGG, or M4A files."]
  ELSE IF file.size > 50 * 1024 * 1024
  THEN [valid |-> FALSE, error |-> "File size too large. Please upload files smaller than 50MB."]
  ELSE [valid |-> TRUE, error |-> Null]

\* processAudioFile resolves: FileReader loads the file and the Audio element
\* reaches loadedmetadata on its data.
processAudioFileOk(file) == file.readable /\ file.decodable

\* What processAudioFile resolves with, as saveAudioFile sees it: a plain
\* object { id, name, file, duration, size, type, data, uploadedAt }, no Blob.
ProcessedAudioFile(file) == [file EXCEPT !.blob = FALSE]

UploadInputs ==
  { [type |-> "audio/mpeg", ext |-> "mp3", size |-> 30, duration |-> "180",
     blob |-> TRUE, readable |-> TRUE, decodable |-> TRUE],
    [type |-> "audio/wav", ext |-> "wav", size |-> 60, duration |-> "180",
     blob |-> TRUE, readable |-> TRUE, decodable |-> TRUE],
    [type |-> "audio/mpeg", ext |-> "mp3", size |-> 30, duration |-> "180",
     blob |-> TRUE, readable |-> FALSE, decodable |-> TRUE],
    [type |-> "audio/mpeg", ext |-> "mp3", size |-> 30, duration |-> "180",
     blob |-> TRUE, readable |-> TRUE, decodable |-> FALSE],
    [type |-> "audio/aac", ext |-> "aac", size |-> 30, duration |-> "180",
     blob |-> TRUE, readable |-> TRUE, decodable |-> TRUE],
    [type |-> "audio/mpeg", ext |-> "mp3", size |-> MaxFileSize + 1, duration |-> "180",
     blob |-> TRUE, readable |-> TRUE, decodable |-> TRUE] }

FileLists == UNION { [1..n -> UploadInputs] : n \in 0..MaxFiles }

\* localStorage with nothing in it.
EmptyStore == [blocked |-> FALSE, foreign |-> 0, item |-> [k \in STORAGE_KEYS |-> NoItem]]

IdleUpload ==
  up = [pc |-> "idle", fileList |-> <<>>, i |-> 0, processedFiles |-> <<>>,
        uploading |-> FALSE, uploadStatus |-> Null, uploadProgress |-> 0,
        completed |-> <<>>, startStore |-> EmptyStore]

\* The return inside the try block, or its end, followed by the finally block.
Finish(u, status) ==
  [u EXCEPT !.pc = "idle", !.uploadStatus = status, !.uploading = FALSE, !.uploadProgress = 0]

\* The head of the loop body for file number i: validateFile, and either the
\* early return or the call of processAudioFile.
LoopStep(u, i) ==
  IF validateFile(u.fileList[i]).valid
  THEN [u EXCEPT !.pc = "processing", !.i = i]
  ELSE Finish([u EXCEPT !.i = i], "error")

HandleFiles(files) ==
  /\ up.pc = "idle"
  /\ IF Len(files) = 0
     THEN up' = up
     ELSE up' = LoopStep([up EXCEPT !.fileList = files, !.processedFiles = <<>>,
                                    !.uploading = TRUE, !.uploadStatus = Null,
                                    !.uploadProgress = 0, !.completed = <<>>,
                                    !.startStore = ls], 1)
  /\ UNCHANGED <<ls, nextId, last, notUpload>>

\* processAudioFile settles: on success saveAudioFile(audioFile) is called
\* and awaited, on rejection the inner catch block runs.
ProcessSettled ==
  /\ up.pc = "processing"
  /\ IF processAudioFileOk(up.fileList[up.i])
     THEN up' = [up EXCEPT !.pc = "saving"]
     ELSE up' = Finish(up, "error")
  /\ UNCHANGED <<ls, nextId, last, notUpload>>

\* saveAudioFile settles: on success the file is pushed and the loop goes on
\* (to the next file, or to the success status and onUploadComplete); on a
\* throw the inner catch block runs.
SaveSettled ==
  /\ up.pc = "saving"
  /\ nextId <= MaxIds
  /\ LET audioFile == ProcessedAudioFile(up.fileList[up.i])
         r == saveAudioFile(ls, audioFile, generateId)
         pushed == [up EXCEPT !.processedFiles = Append(@, audioFile),
                              !.uploadProgress = (up.i * 100) \div Len(up.fileList)]
     IN  /\ ls' = r.store
         /\ nextId' = IF r.ok THEN nextId + 1 ELSE nextId
         /\ up' = IF ~r.ok THEN Finish(up, "error")
                  ELSE IF up.i < Len(up.fileList) THEN LoopStep(pushed, up.i + 1)
                  ELSE Finish([pushed EXCEPT !.completed = Append(@, pushed.processedFiles)],
                              "success")
  /\ UNCHANGED <<last, notUpload>>

UploadNext ==
  \/ \E files \in FileLists : HandleFiles(files)
  \/ ProcessSettled
  \/ SaveSettled

(***************************************************************************)
(* The useAudioPlayer hook.  st is the hook's React state, audio the       *)
(* HTMLAudioElement behind audioRef, hlast the name of the last call or    *)
(* event.  audio.plays holds one flag per play() promise whose             *)
(* continuation in the hook's play has not run yet: TRUE when a later      *)
(* load() or pause() has already aborted the request.                      *)
(***************************************************************************)
\* Unsettled play() promises with a waiting continuation.
MaxPendingPlays == 1

\* useState(1): full volume.  Volumes and gains are counted in hundredths.
FullVolume == 100

NoTrack == [id |-> 0, url |-> "", dur |-> 0]

\* Arguments of loadTrack: null, playable tracks, a track without url.
\* dur is the length of the media behind the url, in seconds.
TrackInputs ==
  { NoTrack,
    [id |-> 1, url |-> "a.mp3", dur |-> 1],
    [id |-> 2, url |-> "b.mp3", dur |-> 2],
    [id |-> 3, url |-> "", dur |-> 0] }

MediaDuration(url) == (CHOOSE t \in TrackInputs : t.url = url).dur

RepeatModes == {"none", "all", "one"}

IdlePlayer ==
  /\ st = [currentTrack |-> NoTrack, isPlaying |-> FALSE, currentTime |-> 0,
           duration |-> 0, volume |-> FullVolume, isLoading |-> FALSE, error |-> Null,
           isShuffling |-> FALSE, repeatMode |-> "none"]
  /\ audio = [src |-> "", paused |-> TRUE, currentTime |-> 0, duration |-> 0,
              volume |-> FullVolume, phase |-> "empty", plays |-> <<>>]
  /\ hlast = [op |-> "init"]

\* Pending play() promises are rejected by load() and by pause().
AbortPlays(plays) == [k \in 1..Len(plays) |-> TRUE]

\* HTMLMediaElement.load(): the element is reset and starts selecting the resource.
ElementLoad(a) ==
  [a EXCEPT !.paused = TRUE, !.currentTime = 0, !.duration = 0,
            !.phase = "starting", !.plays = AbortPlays(@)]

\* HTMLMediaElement.pause().
ElementPause(a) == [a EXCEPT !.paused = TRUE, !.plays = AbortPlays(@)]

\* The element's volume setter: a TypeError, and no change, for NaN.
SetElementVolume(a, v) == IF isNaN(v) THEN a ELSE [a EXCEPT !.volume = v]

\* loadTrack dropping the current track when given an invalid one.
LoadTrackEffect_DropsTrack(s, a, track) ==
  IF track = NoTrack \/ track.url = ""
  THEN [st |-> [s EXCEPT !.error = "Invalid track data", !.currentTrack = NoTrack],
        audio |-> a]
  ELSE [st |-> [s EXCEPT !.currentTrack = track, !.isLoading = TRUE,
                         !.error = Null, !.currentTime = 0],
        audio |-> ElementLoad(SetElementVolume([a EXCEPT !.src = track.url], s.volume))]

\* The body of loadTrack run on hook state s and element a.  Assigning src
\* starts the load also when the volume assignment after it throws.
LoadTrackEffect(s, a, track) ==
  IF track = NoTrack \/ track.url = ""
  THEN [st |-> [s EXCEPT !.error = "Invalid track data"], audio |-> a]
  ELSE [st |-> [s EXCEPT !.currentTrack = track, !.isLoading = TRUE,
                         !.error = Null, !.currentTime = 0],
        audio |-> ElementLoad(SetElementVolume([a EXCEPT !.src = track.url], s.volume))]

loadTrack(track) ==
  /\ hlast' = [op |-> "loadTrack", arg |-> track]
  /\ LET r == LoadTrackEffect(st, audio, track)
     IN  st' = r.st /\ audio' = r.audio
  /\ UNCHANGED notPlayer

\* HTMLMediaElement.play() awaited by the caller: the element leaves the
\* paused state and the promise joins the pending ones.
ElementPlay(a) == [a EXCEPT !.paused = FALSE, !.plays = Append(@, FALSE)]

\* play setting isPlaying before the request has settled.
DoPlay_Optimistic(op, track) ==
  /\ hlast' = [op |-> op]
  /\ IF track = NoTrack
     THEN UNCHANGED <<st, audio>>
     ELSE /\ Len(audio.plays) < MaxPendingPlays
          /\ audio' = [audio EXCEPT !.paused = FALSE, !.plays = Append(@, FALSE)]
          /\ st' = [st EXCEPT !.isPlaying = TRUE, !.error = Null]
  /\ UNCHANGED notPlayer

\* play up to its await.  track is the currentTrack the called closure holds.
DoPlay(op, track) ==
  /\ hlast' = [op |-> op]
  /\ IF track = NoTrack
     THEN UNCHANGED <<st, audio>>
     ELSE /\ Len(audio.plays) < MaxPendingPlays
          /\ audio' = ElementPlay(audio)
          /\ UNCHANGED st
  /\ UNCHANGED notPlayer

\* play after its await, the promise fulfilled: playback has started.
PlayResolved ==
  /\ audio.plays # <<>>
  /\ ~Head(audio.plays)
  /\ audio.phase = "canplay"
  /\ ~audio.paused
  /\ hlast' = [op |-> "playResolved"]
  /\ audio' = [audio EXCEPT !.plays = Tail(@)]
  /\ st' = [st EXCEPT !.isPlaying = TRUE, !.error = Null]
  /\ UNCHANGED notPlayer

\* play after its await, the promise rejected: aborted by load() or pause(),
\* the media unusable, or playback not allowed (the element stays paused).
PlayRejected ==
  /\ audio.plays # <<>>
  /\ hlast' = [op |-> "playRejected"]
  /\ audio' = [audio EXCEPT !.plays = Tail(@),
                            !.paused = IF Head(audio.plays) THEN @ ELSE TRUE]
  /\ st' = [st EXCEPT !.isPlaying = FALSE, !.error = "Failed to play audio"]
  /\ UNCHANGED notPlayer

DoPause(op) ==
  /\ hlast' = [op |-> op]
  /\ audio' = ElementPause(audio)
  /\ st' = [st EXCEPT !.isPlaying = FALSE]
  /\ UNCHANGED notPlayer

play == DoPlay("play", st.currentTrack)

pause == DoPause("pause")

togglePlayPause ==
  IF st.isPlaying THEN DoPause("togglePlayPause")
                  ELSE DoPlay("togglePlayPause", st.currentTrack)

toggleShuffle ==
  /\ hlast' = [op |-> "toggleShuffle"]
  /\ st' = [st EXCEPT !.isShuffling = ~@]
  /\ UNCHANGED <<audio, notPlayer>>

\* A switch that never leaves 'one'.
NextRepeatMode_Stuck(prev) ==
  CASE prev = "none" -> "all"
    [] prev = "all" -> "one"
    [] OTHER -> "one"

\* The updater passed to setRepeatMode.
NextRepeatMode(prev) ==
  CASE prev = "none" -> "all"
    [] prev = "all" -> "one"
    [] prev = "one" -> "none"
    [] OTHER -> "none"

toggleRepeat ==
  /\ hlast' = [op |-> "toggleRepeat"]
  /\ st' = [st EXCEPT !.repeatMode = NextRepeatMode(@)]
  /\ UNCHANGED <<audio, notPlayer>>

reset ==
  /\ hlast' = [op |-> "reset"]
  /\ audio' = [ElementPause(audio) EXCEPT !.currentTime = 0]
  /\ st' = [st EXCEPT !.currentTrack = NoTrack, !.isPlaying = FALSE, !.currentTime = 0,
                      !.duration = 0, !.error = Null, !.isLoading = FALSE]
  /\ UNCHANGED notPlayer

\* The repeatMode inside the handleTrackEnd that handleEnded calls.  The
\* listeners are added by an effect with an empty dependency list, so
\* handleEnded keeps the handleTrackEnd of the first render, whose repeatMode
\* is the initial useState('none').
MountRepeatMode == "none"

\* handleTrackEnd as created by a render whose repeatMode is mode.
handleTrackEnd(s, a, mode) ==
  IF mode = "one"
  THEN [st |-> [s EXCEPT !.isPlaying = TRUE],
        audio |-> [a EXCEPT !.currentTime = 0, !.paused = FALSE]]
  ELSE [st |-> [s EXCEPT !.currentTime = 0], audio |-> a]

handleLoadStart ==
  /\ audio.phase = "starting"
  /\ hlast' = [op |-> "loadstart"]
  /\ audio' = [audio EXCEPT !.phase = "loading"]
  /\ st' = [st EXCEPT !.isLoading = TRUE, !.error = Null]
  /\ UNCHANGED notPlayer

handleLoadedMetadata ==
  /\ audio.phase = "loading"
  /\ hlast' = [op |-> "loadedmetadata"]
  /\ audio' = [audio EXCEPT !.phase = "metadata", !.duration = MediaDuration(audio.src),
                            !.currentTime = MathMin(@, MediaDuration(audio.src))]
  /\ st' = [st EXCEPT !.duration = MediaDuration(audio.src), !.isLoading = FALSE]
  /\ UNCHANGED notPlayer

handleCanPlay ==
  /\ audio.phase = "metadata"
  /\ hlast' = [op |-> "canplay"]
  /\ audio' = [audio EXCEPT !.phase = "canplay"]
  /\ st' = [st EXCEPT !.isLoading = FALSE]
  /\ UNCHANGED notPlayer

\* handleError leaving isLoading as it is.
handleError_KeepsLoading ==
  /\ audio.phase = "loading"
  /\ hlast' = [op |-> "error"]
  /\ audio' = [audio EXCEPT !.phase = "failed", !.plays = AbortPlays(@)]
  /\ st' = [st EXCEPT !.error = "Failed to load audio file", !.isPlaying = FALSE]
  /\ UNCHANGED notPlayer

handleError ==
  /\ audio.phase = "loading"
  /\ hlast' = [op |-> "error"]
  /\ audio' = [audio EXCEPT !.phase = "failed", !.plays = AbortPlays(@)]
  /\ st' = [st EXCEPT !.error = "Failed to load audio file", !.isLoading = FALSE,
                      !.isPlaying = FALSE]
  /\ UNCHANGED notPlayer

\* The element reaches the end of the media while playing: it pauses itself
\* and fires 'ended'; handleEnded runs.
handleEnded ==
  /\ ~audio.paused
  /\ audio.phase = "canplay"
  /\ audio.currentTime = audio.duration
  /\ hlast' = [op |-> "ended"]
  /\ LET r == handleTrackEnd([st EXCEPT !.isPlaying = FALSE],
                             [audio EXCEPT !.paused = TRUE], MountRepeatMode)
     IN  st' = r.st /\ audio' = r.audio
  /\ UNCHANGED notPlayer

\* One second of playback.
Playback ==
  /\ ~audio.paused
  /\ audio.phase = "canplay"
  /\ audio.currentTime < audio.duration
  /\ hlast' = [op |-> "playback"]
  /\ audio' = [audio EXCEPT !.currentTime = @ + 1]
  /\ UNCHANGED <<st, notPlayer>>

\* The progress interval, running while isPlaying.
ProgressTick ==
  /\ st.isPlaying
  /\ hlast' = [op |-> "tick"]
  /\ st' = [st EXCEPT !.currentTime = audio.currentTime]
  /\ UNCHANGED <<audio, notPlayer>>

\* Arguments of changeVolume, in hundredths.
ChangeVolumeInputs == {-50, 50, 150, NaN}

\* Math.max(0, Math.min(1, newVolume))
ClampVolume(newVolume) == MathMax(0, MathMin(FullVolume, newVolume))

\* setVolume(vol) takes effect whatever happens next; the assignment to the
\* element's volume throws for NaN.
changeVolume(newVolume) ==
  /\ hlast' = [op |-> "changeVolume", arg |-> newVolume,
               threw |-> isNaN(ClampVolume(newVolume))]
  /\ st' = [st EXCEPT !.volume = ClampVolume(newVolume)]
  /\ audio' = SetElementVolume(audio, ClampVolume(newVolume))
  /\ UNCHANGED notPlayer

\* The volume toggleMute sets when the element's volume is v.
MutedVolume_Remembers(v) == IF v > 0 THEN 0 ELSE 50

MutedVolume(v) == IF v > 0 THEN 0 ELSE FullVolume

toggleMute ==
  /\ hlast' = [op |-> "toggleMute"]
  /\ st' = [st EXCEPT !.volume = MutedVolume(audio.volume)]
  /\ audio' = [audio EXCEPT !.volume = MutedVolume(audio.volume)]
  /\ UNCHANGED notPlayer

\* Arguments of seekTo, and of skipForward and skipBackward (10 by default).
SeekInputs == {-1, 1, 3, NaN}

SkipInputs == {1, 10, NaN}

\* seekTo without the lower bound.
SeekEffect_NoFloor(s, a, time) ==
  IF isNaN(time) THEN [st |-> s, audio |-> a]
  ELSE LET seekTime == MathMin(time, s.duration)
       IN  [st |-> [s EXCEPT !.currentTime = seekTime],
            audio |-> [a EXCEPT !.currentTime = seekTime]]

\* The body of seekTo run on hook state s and element a.
SeekEffect(s, a, time) ==
  IF isNaN(time) THEN [st |-> s, audio |-> a]
  ELSE LET seekTime == MathMax(0, MathMin(time, s.duration))
       IN  [st |-> [s EXCEPT !.currentTime = seekTime],
            audio |-> [a EXCEPT !.currentTime = seekTime]]

\* x + y and x - y of JavaScript numbers.
Plus(x, y) == IF isNaN(x) \/ isNaN(y) THEN NaN ELSE x + y

Minus(x, y) == IF isNaN(x) \/ isNaN(y) THEN NaN ELSE x - y

seekTo(time) ==
  /\ hlast' = [op |-> "seekTo", arg |-> time]
  /\ LET r == SeekEffect(st, audio, time)
     IN  st' = r.st /\ audio' = r.audio
  /\ UNCHANGED notPlayer

skipForward(seconds) ==
  /\ hlast' = [op |-> "skipForward", arg |-> seconds]
  /\ LET newTime == MathMin(Plus(audio.currentTime, seconds), st.duration)
         r == SeekEffect(st, audio, newTime)
     IN  st' = r.st /\ audio' = r.audio
  /\ UNCHANGED notPlayer

skipBackward(seconds) ==
  /\ hlast' = [op |-> "skipBackward", arg |-> seconds]
  /\ LET newTime == MathMax(Minus(audio.currentTime, seconds), 0)
         r == SeekEffect(st, audio, newTime)
     IN  st' = r.st /\ audio' = r.audio
  /\ UNCHANGED notPlayer

\* The volume and position controls, over loads of tracks.
ControlsNext ==
  \/ \E newVolume \in ChangeVolumeInputs : changeVolume(newVolume)
  \/ toggleMute
  \/ \E time \in SeekInputs : seekTo(time)
  \/ \E seconds \in SkipInputs : skipForward(seconds)
  \/ \E seconds \in SkipInputs : skipBackward(seconds)
  \/ \E track \in TrackInputs : loadTrack(track)
  \/ reset
  \/ handleLoadStart
  \/ handleLoadedMetadata
  \/ handleCanPlay
  \/ handleError

\* Playback: loading, playing, pausing, the repeat and shuffle modes.
PlayerNext ==
  \/ \E track \in TrackInputs : loadTrack(track)
  \/ play
  \/ PlayResolved
  \/ PlayRejected
  \/ pause
  \/ togglePlayPause
  \/ toggleShuffle
  \/ toggleRepeat
  \/ reset
  \/ handleLoadStart
  \/ handleLoadedMetadata
  \/ handleCanPlay
  \/ handleError
  \/ handleEnded
  \/ Playback
  \/ ProgressTick

(***************************************************************************)
(* The AudioPlayer component.  ap holds its props: the playlist (by its    *)
(* length), currentIndex, and whether onTrackChange was passed.  aplast    *)
(* is the last handler run and what it passed to onTrackChange.            *)
(***************************************************************************)
\* Longest playlist, and the largest currentIndex the parent passes.
MaxPlaylist == 4

IdleAudioPlayer ==
  /\ ap \in [length : 0..MaxPlaylist, currentIndex : 0..MaxPlaylist, onTrackChange : BOOLEAN]
  /\ aplast = [op |-> "init", reported |-> <<>>]

\* onTrackChange?.(newIndex)
Report(newIndex) == IF ap.onTrackChange THEN <<newIndex>> ELSE <<>>

handlePreviousIndex(currentIndex, length) ==
  IF currentIndex > 0 THEN currentIndex - 1 ELSE length - 1

\* handleNext staying on the last track.
handleNextIndex_NoWrap(currentIndex, length) ==
  IF currentIndex < length - 1 THEN currentIndex + 1 ELSE currentIndex

handleNextIndex(currentIndex, length) ==
  IF currentIndex < length - 1 THEN currentIndex + 1 ELSE 0

DoHandlePrevious(op) ==
  /\ aplast' = [op |-> op,
                reported |-> IF ap.length = 0 THEN <<>>
                             ELSE Report(handlePreviousIndex(ap.currentIndex, ap.length))]
  /\ UNCHANGED <<ap, notAudioPlayer>>

DoHandleNext(op) ==
  /\ aplast' = [op |-> op,
                reported |-> IF ap.length = 0 THEN <<>>
                             ELSE Report(handleNextIndex(ap.currentIndex, ap.length))]
  /\ UNCHANGED <<ap, notAudioPlayer>>

handlePrevious == DoHandlePrevious("handlePrevious")

handleNext == DoHandleNext("handleNext")

\* <audio onEnded={handleNext}>, rendered when playlist[currentIndex] exists.
AudioElementEnded ==
  /\ ap.currentIndex < ap.length
  /\ DoHandleNext("ended")

\* The parent renders the component with other props.
Rerender(length, currentIndex, onTrackChange) ==
  /\ ap' = [length |-> length, currentIndex |-> currentIndex, onTrackChange |-> onTrackChange]
  /\ aplast' = [op |-> "render", reported |-> <<>>]
  /\ UNCHANGED notAudioPlayer

AudioPlayerNext ==
  \/ handlePrevious
  \/ handleNext
  \/ AudioElementEnded
  \/ \E length \in 0..MaxPlaylist, currentIndex \in 0..MaxPlaylist, onTrackChange \in BOOLEAN :
       Rerender(length, currentIndex, onTrackChange)

(***************************************************************************)
(* The App component.  It owns one useAudioPlayer hook (st, audio) and the *)
(* list of tracks it displays, app.tracks.  getStoredTracks and            *)
(* deleteTrack come from './services/audioStorage' under names the storage *)
(* module of this repository does not export; they are taken by their      *)
(* names: app.stored is the set of track ids in storage, getStoredTracks   *)
(* reads it and deleteTrack(id) removes id from it.                        *)
(***************************************************************************)
\* Tracks the App can display: the playable tracks.
AppTracks == { t \in TrackInputs : t.url # "" }

AppTrackIds == { t.id : t \in AppTracks }

getStoredTracks(a) == a.stored

deleteTrack(a, trackId) == [a EXCEPT !.stored = @ \ {trackId}]

\* What the hook's return value holds under each name App destructures.
HookReturns ==
  {"currentTrack", "isPlaying", "currentTime", "duration", "volume", "isLoading", "error",
   "isShuffling", "repeatMode", "progress", "loadTrack", "play", "pause",
   "togglePlayPause", "seekTo", "changeVolume", "toggleMute", "toggleShuffle",
   "toggleRepeat", "skipForward", "skipBackward", "reset", "formatTime"}

InitApp ==
  /\ app \in { [tracks |-> s, stored |-> s] : s \in SUBSET AppTrackIds }
  /\ alast = [op |-> "init", arg |-> 0, threw |-> FALSE, wasCurrent |-> FALSE,
              hadTrack |-> FALSE]

RestApp ==
  /\ app = [tracks |-> {}, stored |-> {}]
  /\ alast = [op |-> "init", arg |-> 0, threw |-> FALSE, wasCurrent |-> FALSE,
              hadTrack |-> FALSE]

\* play as the render that created the handler closed over it: it sees that
\* render's currentTrack, also after a loadTrack in the same handler.
PlayEffect(s, a, closureTrack) ==
  IF closureTrack = NoTrack THEN [st |-> s, audio |-> a]
  ELSE [st |-> s, audio |-> ElementPlay(a)]

PauseEffect(s, a) ==
  [st |-> [s EXCEPT !.isPlaying = FALSE], audio |-> ElementPause(a)]

handleTrackSelect(track) ==
  /\ track.id \in app.tracks
  /\ LET same == st.currentTrack.id = track.id
         loaded == LoadTrackEffect(st, audio, track)
         r == IF same
              THEN IF st.isPlaying THEN PauseEffect(st, audio)
                   ELSE PlayEffect(st, audio, st.currentTrack)
              ELSE PlayEffect(loaded.st, loaded.audio, st.currentTrack)
     IN  /\ Len(r.audio.plays) <= MaxPendingPlays
         /\ st' = r.st
         /\ audio' = r.audio
         /\ hlast' = [op |-> IF same /\ st.isPlaying THEN "pause" ELSE "play"]
         /\ alast' = [op |-> "handleTrackSelect", arg |-> track.id, threw |-> FALSE,
                      wasCurrent |-> same, hadTrack |-> st.currentTrack # NoTrack]
  /\ UNCHANGED <<app, notApp>>

handleUploadComplete ==
  /\ app' = [app EXCEPT !.tracks = getStoredTracks(app)]
  /\ alast' = [op |-> "handleUploadComplete", arg |-> 0, threw |-> FALSE, wasCurrent |-> FALSE,
              hadTrack |-> FALSE]
  /\ UNCHANGED <<st, audio, hlast, notApp>>

\* stop is not among the names the hook returns, so stop() throws a
\* TypeError and the handler ends there.
handleTrackDelete(trackId) ==
  /\ trackId \in app.tracks
  /\ LET isCurrent == st.currentTrack.id = trackId
         throws == isCurrent /\ "stop" \notin HookReturns
         deleted == deleteTrack(app, trackId)
     IN  /\ app' = IF throws THEN app
                   ELSE [deleted EXCEPT !.tracks = getStoredTracks(deleted)]
         /\ alast' = [op |-> "handleTrackDelete", arg |-> trackId, threw |-> throws,
                      wasCurrent |-> isCurrent, hadTrack |-> st.currentTrack # NoTrack]
  /\ UNCHANGED <<st, audio, hlast, notApp>>

\* A track reaches storage (an upload in the Upload view).
TrackStored(trackId) ==
  /\ trackId \notin app.stored
  /\ app' = [app EXCEPT !.stored = @ \cup {trackId}]
  /\ alast' = [op |-> "stored", arg |-> trackId, threw |-> FALSE, wasCurrent |-> FALSE,
              hadTrack |-> FALSE]
  /\ UNCHANGED <<st, audio, hlast, notApp>>

AppNext ==
  \/ \E track \in AppTracks : handleTrackSelect(track)
  \/ \E trackId \in AppTrackIds : handleTrackDelete(trackId)
  \/ handleUploadComplete
  \/ \E trackId \in AppTrackIds : TrackStored(trackId)
  \/ PlayResolved
  \/ PlayRejected
  \/ handleLoadStart
  \/ handleLoadedMetadata
  \/ handleCanPlay
  \/ handleError
  \/ handleEnded
  \/ Playback
  \/ ProgressTick

(***************************************************************************)
(* The AudioContextManager.  mgr holds its fields, with 0 for null and     *)
(* contexts and nodes named by their position in web.ctxs and web.nodes.   *)
(* web.edges holds the connections <<from, to>>, to = 0 standing for the   *)
(* destination of the context of from.                                     *)
(***************************************************************************)
\* AudioContexts and nodes made before the model stops making more.
MaxContexts == 2
MaxNodes == 8

\* Audio elements handed to the manager; 0 is a missing element.
Elements == {0, 1, 2}

IdleManager ==
  /\ mgr = [audioContext |-> 0, analyserNode |-> 0, gainNode |-> 0, sourceNode |-> 0,
            isInitialized |-> FALSE]
  /\ web = [ctxs |-> <<>>, nodes |-> <<>>, edges |-> {}]
  /\ mlast = [op |-> "init", arg |-> 0, ret |-> 0, threw |-> FALSE]

NewNode(w, kind, ctx, el) ==
  [w EXCEPT !.nodes = Append(@, [kind |-> kind, ctx |-> ctx, el |-> el, gain |-> FullVolume])]

Connect(w, from, to) == [w EXCEPT !.edges = @ \cup {<<from, to>>}]

\* node.disconnect(): every outgoing connection of the node goes.
Disconnect(w, node) == [w EXCEPT !.edges = { e \in @ : e[1] # node }]

\* createMediaElementSource throws for a missing element and for an element
\* that already has a MediaElementAudioSourceNode.
CanCreateSource(w, el) ==
  /\ el # 0
  /\ \A k \in 1..Len(w.nodes) : ~(w.nodes[k].kind = "source" /\ w.nodes[k].el = el)

HasLiveContext(m, w) == m.audioContext # 0 /\ w.ctxs[m.audioContext] # "closed"

\* initialize without its early return: a context is made on every call.
initialize_AlwaysNew(constructs) ==
  /\ Len(web.ctxs) < MaxContexts
  /\ Len(web.nodes) + 2 <= MaxNodes
  /\ LET ctx == Len(web.ctxs) + 1
         analyser == Len(web.nodes) + 1
         gain == Len(web.nodes) + 2
         w1 == [web EXCEPT !.ctxs = Append(@, "running")]
         w2 == NewNode(NewNode(w1, "analyser", ctx, 0), "gain", ctx, 0)
     IN  /\ web' = Connect(Connect(w2, gain, analyser), analyser, 0)
         /\ mgr' = [mgr EXCEPT !.audioContext = ctx, !.analyserNode = analyser,
                               !.gainNode = gain, !.isInitialized = TRUE]
         /\ mlast' = [op |-> "initialize", arg |-> TRUE, ret |-> ctx, threw |-> FALSE]
  /\ UNCHANGED notManager

\* constructs tells whether new AudioContext() returns or throws.
initialize(constructs) ==
  /\ IF HasLiveContext(mgr, web)
     THEN /\ mlast' = [op |-> "initialize", arg |-> constructs, ret |-> mgr.audioContext, threw |-> FALSE]
          /\ UNCHANGED <<mgr, web>>
     ELSE IF ~constructs
     THEN /\ mlast' = [op |-> "initialize", arg |-> constructs,
                       ret |-> "Audio context initialization failed", threw |-> TRUE]
          /\ UNCHANGED <<mgr, web>>
     ELSE /\ Len(web.ctxs) < MaxContexts
          /\ Len(web.nodes) + 2 <= MaxNodes
          /\ LET ctx == Len(web.ctxs) + 1
                 analyser == Len(web.nodes) + 1
                 gain == Len(web.nodes) + 2
                 w1 == [web EXCEPT !.ctxs = Append(@, "running")]
                 w2 == NewNode(NewNode(w1, "analyser", ctx, 0), "gain", ctx, 0)
             IN  /\ web' = Connect(Connect(w2, gain, analyser), analyser, 0)
                 /\ mgr' = [mgr EXCEPT !.audioContext = ctx, !.analyserNode = analyser,
                                       !.gainNode = gain, !.isInitialized = TRUE]
                 /\ mlast' = [op |-> "initialize", arg |-> constructs, ret |-> ctx, threw |-> FALSE]
  /\ UNCHANGED notManager

\* connectAudioElement leaving the previous source connected.
connectAudioElement_NoDisconnect(audioElement) ==
  /\ mgr.isInitialized
  /\ audioElement # 0
  /\ CanCreateSource(web, audioElement)
  /\ Len(web.nodes) < MaxNodes
  /\ web' = Connect(NewNode(web, "source", mgr.audioContext, audioElement),
                    Len(web.nodes) + 1, mgr.gainNode)
  /\ mgr' = [mgr EXCEPT !.sourceNode = Len(web.nodes) + 1]
  /\ mlast' = [op |-> "connectAudioElement", arg |-> audioElement,
               ret |-> Len(web.nodes) + 1, threw |-> FALSE]
  /\ UNCHANGED notManager

connectAudioElement(audioElement) ==
  /\ IF ~mgr.isInitialized \/ audioElement = 0
     THEN /\ mlast' = [op |-> "connectAudioElement", arg |-> audioElement,
                        ret |-> 0, threw |-> FALSE]
          /\ UNCHANGED <<mgr, web>>
     ELSE LET w1 == IF mgr.sourceNode # 0 THEN Disconnect(web, mgr.sourceNode) ELSE web
              source == Len(w1.nodes) + 1
          IN  IF CanCreateSource(w1, audioElement)
              THEN /\ Len(web.nodes) < MaxNodes
                   /\ web' = Connect(NewNode(w1, "source", mgr.audioContext, audioElement),
                                     source, mgr.gainNode)
                   /\ mgr' = [mgr EXCEPT !.sourceNode = source]
                   /\ mlast' = [op |-> "connectAudioElement", arg |-> audioElement,
                        ret |-> source, threw |-> FALSE]
              ELSE /\ web' = w1
                   /\ UNCHANGED mgr
                   /\ mlast' = [op |-> "connectAudioElement", arg |-> audioElement,
                        ret |-> 0, threw |-> FALSE]
  /\ UNCHANGED notManager

\* Volumes passed to setVolume and changeVolume, in hundredths.
VolumeInputs == {-50, 0, 50, 100, 150, NaN}

\* gain.setValueAtTime throws a TypeError for a value that is not finite.
setVolume(volume) ==
  /\ IF mgr.gainNode = 0
     THEN /\ mlast' = [op |-> "setVolume", arg |-> volume, ret |-> 0, threw |-> FALSE]
          /\ UNCHANGED web
     ELSE LET clampedVolume == MathMax(0, MathMin(FullVolume, volume))
          IN  IF isNaN(clampedVolume)
              THEN /\ mlast' = [op |-> "setVolume", arg |-> volume, ret |-> 0, threw |-> TRUE]
                   /\ UNCHANGED web
              ELSE /\ mlast' = [op |-> "setVolume", arg |-> volume, ret |-> 0, threw |-> FALSE]
                   /\ web' = [web EXCEPT !.nodes[mgr.gainNode].gain = clampedVolume]
  /\ UNCHANGED <<mgr, notManager>>

\* The return value is 1 for { fromGain, toGain }, 0 for null and undefined.
crossfade(fromElement, toElement) ==
  /\ IF ~mgr.isInitialized
     THEN /\ mlast' = [op |-> "crossfade", arg |-> <<fromElement, toElement>>, ret |-> 0, threw |-> FALSE]
          /\ UNCHANGED web
     ELSE /\ Len(web.nodes) + 4 <= MaxNodes
          /\ LET ctx == mgr.audioContext
                 fromGain == Len(web.nodes) + 1
                 toGain == Len(web.nodes) + 2
                 fromSource == Len(web.nodes) + 3
                 toSource == Len(web.nodes) + 4
                 w2 == NewNode(NewNode(web, "gain", ctx, 0), "gain", ctx, 0)
                 w3 == NewNode(w2, "source", ctx, fromElement)
                 w4 == NewNode(w3, "source", ctx, toElement)
                 w5 == Connect(Connect(Connect(Connect(w4, fromSource, fromGain),
                                toSource, toGain), fromGain, mgr.analyserNode),
                                toGain, mgr.analyserNode)
             IN  IF ~CanCreateSource(w2, fromElement)
                 THEN /\ web' = w2
                      /\ mlast' = [op |-> "crossfade", arg |-> <<fromElement, toElement>>, ret |-> 0, threw |-> FALSE]
                 ELSE IF ~CanCreateSource(w3, toElement)
                 THEN /\ web' = w3
                      /\ mlast' = [op |-> "crossfade", arg |-> <<fromElement, toElement>>, ret |-> 0, threw |-> FALSE]
                 ELSE /\ web' = [w5 EXCEPT !.nodes[toGain].gain = 0]
                      /\ mlast' = [op |-> "crossfade", arg |-> <<fromElement, toElement>>, ret |-> 1, threw |-> FALSE]
  /\ UNCHANGED <<mgr, notManager>>

getState ==
  /\ mlast' = [op |-> "getState", arg |-> 0,
               ret |-> [state |-> IF mgr.audioContext = 0 THEN "closed"
                                  ELSE web.ctxs[mgr.audioContext],
                        isInitialized |-> mgr.isInitialized],
               threw |-> FALSE]
  /\ UNCHANGED <<mgr, web, notManager>>

\* dispose keeping its reference to the closed context.
dispose_KeepsContext ==
  /\ mgr.audioContext # 0
  /\ web' = [web EXCEPT !.ctxs[mgr.audioContext] = "closed"]
  /\ mgr' = [mgr EXCEPT !.analyserNode = 0, !.gainNode = 0, !.sourceNode = 0]
  /\ mlast' = [op |-> "dispose", arg |-> 0, ret |-> 0, threw |-> FALSE]
  /\ UNCHANGED notManager

dispose ==
  /\ LET w1 == IF mgr.sourceNode # 0 THEN Disconnect(web, mgr.sourceNode) ELSE web
         w2 == IF mgr.gainNode # 0 THEN Disconnect(w1, mgr.gainNode) ELSE w1
         w3 == IF mgr.analyserNode # 0 THEN Disconnect(w2, mgr.analyserNode) ELSE w2
     IN  web' = IF HasLiveContext(mgr, web)
                THEN [w3 EXCEPT !.ctxs[mgr.audioContext] = "closed"]
                ELSE w3
  /\ mgr' = [audioContext |-> 0, analyserNode |-> 0, gainNode |-> 0, sourceNode |-> 0,
             isInitialized |-> FALSE]
  /\ mlast' = [op |-> "dispose", arg |-> 0, ret |-> 0, threw |-> FALSE]
  /\ UNCHANGED notManager

ManagerNext ==
  \/ \E constructs \in BOOLEAN : initialize(constructs)
  \/ \E audioElement \in Elements : connectAudioElement(audioElement)
  \/ \E volume \in VolumeInputs : setVolume(volume)
  \/ \E fromElement \in Elements, toElement \in Elements : crossfade(fromElement, toElement)
  \/ getState
  \/ dispose

(***************************************************************************)
(* Specifications.                                                         *)
(***************************************************************************)
vars == <<ls, nextId, last, up, st, audio, hlast, ap, aplast, app, alast, mgr, web, mlast, calls>>

\* The parts at rest: an untouched store, and the AudioPlayer not rendered
\* with anything (its default props).
RestStore ==
  /\ ls = EmptyStore
  /\ nextId = 1
  /\ last = [op |-> "init", pre |-> EmptyStore]

RestAudioPlayer ==
  /\ ap = [length |-> 0, currentIndex |-> 0, onTrackChange |-> FALSE]
  /\ aplast = [op |-> "init", reported |-> <<>>]

\* The storage service called from anywhere.
Init == InitStore /\ IdleUpload /\ IdlePlayer /\ RestAudioPlayer /\ RestApp /\ IdleManager /\ NoCalls

Next == StoreNext

Spec == Init /\ [][Next]_vars

\* The uploader over the storage service.
NextUpload == UploadNext

SpecUpload == Init /\ [][NextUpload]_vars

\* The player hook with its audio element.
InitPlayer == RestStore /\ IdleUpload /\ IdlePlayer /\ RestAudioPlayer /\ RestApp /\ IdleManager /\ NoCalls

NextPlayer == PlayerNext

SpecPlayer == InitPlayer /\ [][NextPlayer]_vars

\* The player hook's volume and position controls.
NextControls == ControlsNext

SpecControls == InitPlayer /\ [][NextControls]_vars

\* The AudioPlayer component under a parent that renders it.
InitAudioPlayer ==
  RestStore /\ IdleUpload /\ IdlePlayer /\ IdleAudioPlayer /\ RestApp /\ IdleManager /\ NoCalls

NextAudioPlayer == AudioPlayerNext

SpecAudioPlayer == InitAudioPlayer /\ [][NextAudioPlayer]_vars

\* The App component with its hook.
InitAppPlayer ==
  RestStore /\ IdleUpload /\ IdlePlayer /\ RestAudioPlayer /\ InitApp /\ IdleManager /\ NoCalls

NextApp == AppNext

SpecApp == InitAppPlayer /\ [][NextApp]_vars

\* saveAudioFile calls made while earlier ones stand at an await.
SpecSaves == Init /\ [][SavesNext]_vars

\* The audio-context manager called from anywhere.
InitManager == RestStore /\ IdleUpload /\ IdlePlayer /\ RestAudioPlayer /\ RestApp /\ IdleManager /\ NoCalls

NextManager == ManagerNext

SpecManager == InitManager /\ [][NextManager]_vars

(***************************************************************************)
(* C1.  When saveAudioFile(file) succeeds, getAudioFiles() returns the     *)
(* list it returned before the call with exactly one new entry appended    *)
(* at the end (playCount 0, lastPlayed null), every earlier entry          *)
(* unchanged, and getAudioFile(returned.id) returns the new entry.         *)
(* Violated: a save that leaves less room than the availability probe      *)
(* needs makes getAudioFiles return [] although the list is stored.        *)
(***************************************************************************)
C1_SaveAppendsOneEntry ==
  (last.op = "saveAudioFile" /\ last.ok) =>
    LET before == getAudioFiles(last.pre).ret
        after == getAudioFiles(ls).ret
        returned == last.ret[1]
    IN  /\ Len(after) = Len(before) + 1
        /\ SubSeq(after, 1, Len(before)) = before
        /\ after[Len(after)].id = returned.id
        /\ after[Len(after)].playCount = 0
        /\ after[Len(after)].lastPlayed = Null
        /\ getAudioFile(ls, returned.id) = <<after[Len(after)]>>

\* What does hold after a successful save: the stored item is the earlier
\* list with the new entry's JSON form appended.
StoredListExtended ==
  (last.op = "saveAudioFile" /\ last.ok) =>
    /\ ls.item["AUDIO_FILES"].t = "json"
    /\ ls.item["AUDIO_FILES"].v
         = Append(getAudioFiles(last.pre).ret, JsonRoundTrip(last.ret[1]))

(***************************************************************************)
(* C2.  No eviction: after a saveAudioFile, updateAudioFile,               *)
(* savePlaylistState, savePlaybackState or saveUserPreferences call an     *)
(* audio file that was stored is still retrievable by getAudioFile with    *)
(* its id, and a file leaves storage only through deleteAudioFile with     *)
(* its id or through clearAllData.                                         *)
(* Violated: with the store nearly full getAudioFile returns null for a    *)
(* stored file, and deleteAudioFile of one id rewrites the list as [].     *)
(***************************************************************************)
Stored(s, id) ==
  /\ s.item["AUDIO_FILES"].t = "json"
  /\ \E i \in 1..Len(s.item["AUDIO_FILES"].v) : s.item["AUDIO_FILES"].v[i].id = id

StaysRetrievable ==
  \A id \in Ids :
    (/\ Stored(last.pre, id)
     /\ last.op \in {"saveAudioFile", "updateAudioFile", "savePlaylistState",
                     "savePlaybackState", "saveUserPreferences"})
      => getAudioFile(ls, id) # <<>>

LeavesOnlyByDeleteOrClear ==
  \A id \in Ids :
    (Stored(last.pre, id) /\ ~Stored(ls, id))
      => \/ last.op = "clearAllData"
         \/ (last.op = "deleteAudioFile" /\ last.id = id)

C2_NoEviction == StaysRetrievable /\ LeavesOnlyByDeleteOrClear

(***************************************************************************)
(* C3.  saveAudioFile throws Error('LocalStorage is not available') when   *)
(* the storage probe fails, and an Error whose message starts with         *)
(* 'Failed to save audio file: ' when reading the file or writing to       *)
(* localStorage fails; in both cases the stored audio-file list is the     *)
(* same as before the call.                                                *)
(***************************************************************************)
\* setItem of the list extended by the file's entry throws.
SaveWriteFails(s, file) ==
  \/ s.blocked
  \/ StoredChars(s) - s.item["AUDIO_FILES"].n
       + 2 + SumLen(getAudioFiles(s).ret) + Base64Len(file.size) > QuotaChars

C3_SaveFailures ==
  last.op = "saveAudioFile" =>
    /\ ~checkStorageAvailability(last.pre)
         => (~last.ok /\ last.err = "LocalStorage is not available")
    /\ (/\ checkStorageAvailability(last.pre)
        /\ (~last.file.blob \/ ~last.file.readable \/ SaveWriteFails(last.pre, last.file)))
         => (~last.ok /\ last.err = "Failed to save audio file: ")
    /\ ~last.ok => (ls = last.pre /\ last.err # Null)

\* A save whose read succeeded and whose write of a longer list was refused.
C3_Witness ==
  /\ last.op = "saveAudioFile"
  /\ ~last.ok
  /\ last.err = "Failed to save audio file: "
  /\ last.file.blob /\ last.file.readable
  /\ Len(ls.item["AUDIO_FILES"].v) > 0

(***************************************************************************)
(* C4.  Apart from saveAudioFile, the storage operations never throw.      *)
(* As claimed: when localStorage access or JSON parsing fails,             *)
(* getAudioFiles and getPlaylistState return [], getPlaybackState returns  *)
(* null, getUserPreferences returns the default preferences, and           *)
(* deleteAudioFile, updateAudioFile, savePlaylistState, savePlaybackState, *)
(* saveUserPreferences and clearAllData return false.                      *)
(***************************************************************************)
GetterOps == {"getAudioFiles", "getPlaylistState", "getPlaybackState", "getUserPreferences"}
WriterOps == {"deleteAudioFile", "updateAudioFile", "savePlaylistState", "savePlaybackState",
              "saveUserPreferences", "clearAllData"}

\* Reading key k fails: the access throws, or the stored string does not parse.
ParseFails(s, k) == ~s.blocked /\ s.item[k].t = "corrupt"
ReadFails(s, k) == s.blocked \/ ParseFails(s, k)

NeverThrows == last.op \in GetterOps \cup WriterOps => ~last.threw

GettersFallBack ==
  /\ (last.op = "getAudioFiles"
        /\ (ReadFails(last.pre, "AUDIO_FILES") \/ ~checkStorageAvailability(last.pre)))
       => last.ret = <<>>
  /\ (last.op = "getPlaylistState" /\ ReadFails(last.pre, "CURRENT_PLAYLIST"))
       => last.ret = <<>>
  /\ (last.op = "getPlaybackState" /\ ReadFails(last.pre, "PLAYBACK_STATE"))
       => last.ret = <<>>
  /\ (last.op = "getUserPreferences" /\ ReadFails(last.pre, "USER_PREFERENCES"))
       => last.ret = [volume |-> 1, shuffle |-> FALSE, repeat |-> "none", theme |-> "dark"]

\* The claim as stated: the writers return false on either kind of failure.
C4_FailuresReturnFalse ==
  /\ NeverThrows
  /\ GettersFallBack
  /\ (last.op \in {"deleteAudioFile", "updateAudioFile"} /\ ReadFails(last.pre, "AUDIO_FILES"))
       => last.ret = FALSE
  /\ (last.op = "saveUserPreferences" /\ ReadFails(last.pre, "USER_PREFERENCES"))
       => last.ret = FALSE
  /\ (last.op \in WriterOps /\ last.pre.blocked) => last.ret = FALSE

\* The writer's own setItem / removeItem throws.
WriteThrows ==
  \/ last.pre.blocked
  \/ /\ last.op = "savePlaylistState"
     /\ ~last.p.circular
     /\ StoredChars(last.pre) - last.pre.item["CURRENT_PLAYLIST"].n
          + (IF last.p.undefined THEN 9 ELSE 2 + 10 * Len(last.p.items)) > QuotaChars
  \/ /\ last.op = "savePlaybackState"
     /\ StoredChars(last.pre) - last.pre.item["PLAYBACK_STATE"].n + PlaybackJsonLen > QuotaChars
  \/ /\ last.op = "saveUserPreferences"
     /\ StoredChars(last.pre) - last.pre.item["USER_PREFERENCES"].n + PreferencesJsonLen
          > QuotaChars

\* C4 as amended: the writers return false when their own write throws (and
\* then leave the store as it was); when only the stored JSON fails to parse,
\* updateAudioFile returns false, while deleteAudioFile and
\* saveUserPreferences take the stored value as [] and as the defaults,
\* overwrite it and return true.
C4_WriteFailuresReturnFalse ==
  /\ NeverThrows
  /\ GettersFallBack
  /\ (last.op \in WriterOps /\ WriteThrows) => (last.ret = FALSE /\ ls = last.pre)
  /\ (last.op = "updateAudioFile" /\ ParseFails(last.pre, "AUDIO_FILES")) => last.ret = FALSE
  /\ (last.op = "deleteAudioFile" /\ ParseFails(last.pre, "AUDIO_FILES"))
       => (last.ret = TRUE /\ ls.item["AUDIO_FILES"] = [t |-> "json", v |-> <<>>, n |-> 2])
  /\ (last.op = "saveUserPreferences" /\ ParseFails(last.pre, "USER_PREFERENCES") /\ ~WriteThrows)
       => (last.ret = TRUE
           /\ ls.item["USER_PREFERENCES"].v
                = <<Spread([volume |-> 1, shuffle |-> FALSE, repeat |-> "none", theme |-> "dark"],
                           last.preferences)>>)

\* A writer refused by the quota, on a store that can be read.
C4_Witness ==
  /\ last.op = "savePlaylistState"
  /\ ~last.pre.blocked
  /\ ~last.p.circular
  /\ last.ret = FALSE
  /\ Len(ls.item["AUDIO_FILES"].v) > 0

(***************************************************************************)
(* C5.  getStorageInfo reports used as the sum of the lengths of all       *)
(* values held in localStorage, total as 10*1024*1024 and available as     *)
(* total - used (all zero when storage is unavailable); validateAudioFile  *)
(* rejects a file of unsupported type first, then a file larger than       *)
(* 50MB, then a file whose size is greater than available, and accepts     *)
(* every other file.                                                       *)
(***************************************************************************)
C5_QuotaIsLinearCount ==
  /\ last.op = "getStorageInfo" =>
       IF checkStorageAvailability(last.pre)
       THEN /\ last.ret.used = last.pre.foreign
                                 + last.pre.item["AUDIO_FILES"].n
                                 + last.pre.item["CURRENT_PLAYLIST"].n
                                 + last.pre.item["PLAYBACK_STATE"].n
                                 + last.pre.item["USER_PREFERENCES"].n
            /\ last.ret.total = 10 * 1024 * 1024
            /\ last.ret.available = last.ret.total - last.ret.used
       ELSE last.ret = [used |-> 0, available |-> 0, total |-> 0]
  /\ last.op = "validateAudioFile" =>
       LET f == last.file
           supported == f.type \in validTypes \/ f.ext \in validExtensions
           available == getStorageInfo(last.pre).available
       IN  last.ret =
             IF ~supported
             THEN [valid |-> FALSE, error |-> "Invalid audio file type"]
             ELSE IF f.size > 50 * 1024 * 1024
             THEN [valid |-> FALSE, error |-> "File size too large (max 50MB)"]
             ELSE IF f.size > available
             THEN [valid |-> FALSE, error |-> "Not enough storage space available"]
             ELSE [valid |-> TRUE, error |-> Null]

\* A supported file under 50MB refused for space on an available store.
C5_Witness ==
  /\ last.op = "validateAudioFile"
  /\ checkStorageAvailability(last.pre)
  /\ StoredChars(last.pre) > 0
  /\ last.file.size < TotalEstimate
  /\ last.ret.error = "Not enough storage space available"

(***************************************************************************)
(* C6.  handleFiles takes the files in order, one at a time: when every    *)
(* file can be validated, read and saved (and the store has room for all   *)
(* of them) the run ends with the success status and one call of           *)
(* onUploadComplete with all processed files in input order; otherwise it  *)
(* ends with the error status and without a call of onUploadComplete; and  *)
(* uploading is false when the run has ended.                              *)
(***************************************************************************)
UploadDone == up.pc = "idle" /\ up.fileList # <<>>

Uploadable(file) == validateFile(file).valid /\ file.readable /\ file.decodable

RECURSIVE SumBase64(_)
SumBase64(files) ==
  IF files = <<>> THEN 0 ELSE Base64Len(Head(files).size) + SumBase64(Tail(files))

StoreHasRoomFor(s, files) ==
  /\ ~s.blocked
  /\ StoredChars(s) + 2 + SumBase64(files) + ProbeLen <= QuotaChars

EveryFileSucceeds ==
  /\ \A k \in 1..Len(up.fileList) : Uploadable(up.fileList[k])
  /\ StoreHasRoomFor(up.startStore, up.fileList)

UploadStopsAtFirstFailure ==
  (UploadDone /\ up.uploadStatus = "error") =>
    /\ ~up.uploading
    /\ up.completed = <<>>
    /\ Len(up.processedFiles) = up.i - 1
    /\ \A k \in 1..(up.i - 1) : Uploadable(up.fileList[k])
    /\ Len(getAudioFiles(ls).ret) >= Len(up.processedFiles) \/ ~checkStorageAvailability(ls)

(***************************************************************************)
(* C7.  play() leaves everything as it is when no track is loaded; with a  *)
(* track it asks the element to play and changes no hook state until the   *)
(* request settles: fulfilled, isPlaying is true and error null; rejected, *)
(* isPlaying is false and error is 'Failed to play audio'.  pause() pauses *)
(* the element and sets isPlaying false.  togglePlayPause() does what      *)
(* pause() does when isPlaying is true and what play() does otherwise.     *)
(***************************************************************************)
C7_PlayPauseToggle ==
  [][ LET op == hlast'.op
          Nothing == st' = st /\ audio' = audio
          Requested == /\ ~audio'.paused
                       /\ audio'.plays = Append(audio.plays, FALSE)
                       /\ st' = st
          Paused == audio'.paused /\ ~st'.isPlaying
          Played == IF st.currentTrack = NoTrack THEN Nothing ELSE Requested
      IN  /\ op = "play" => Played
          /\ op = "playResolved" => st'.isPlaying /\ st'.error = Null
          /\ op = "playRejected" => ~st'.isPlaying /\ st'.error = "Failed to play audio"
          /\ op = "pause" => Paused
          /\ op = "togglePlayPause" => IF st.isPlaying THEN Paused ELSE Played
          /\ (~st.isPlaying /\ st'.isPlaying) => op = "playResolved"
    ]_<<st, audio, hlast>>

\* A play request on a loaded track was fulfilled.
C7_Witness ==
  /\ hlast.op = "playResolved"
  /\ st.currentTrack # NoTrack
  /\ st.isPlaying
  /\ st.error = Null
  /\ ~audio.paused

(***************************************************************************)
(* C8.  After 'ended' the outcome follows the repeat mode the hook is in   *)
(* at that moment: in mode 'one' the element is back at 0 and playing and  *)
(* isPlaying is true; in the other modes isPlaying is false and            *)
(* currentTime is 0.                                                       *)
(***************************************************************************)
C8_EndedFollowsRepeatMode ==
  hlast.op = "ended" =>
    IF st.repeatMode = "one"
    THEN st.isPlaying /\ audio.currentTime = 0 /\ ~audio.paused
    ELSE ~st.isPlaying /\ st.currentTime = 0

\* What does hold after 'ended', in every repeat mode: the branch of mode
\* 'none' was taken.
EndedStopsPlayback ==
  hlast.op = "ended" => ~st.isPlaying /\ st.currentTime = 0 /\ audio.paused

(***************************************************************************)
(* C9.  toggleRepeat moves the repeat mode along none -> all -> one ->     *)
(* none and toggleShuffle flips isShuffling; each leaves every other field *)
(* of the hook (current track, isPlaying, currentTime, volume, ...) and    *)
(* the element alone.  The mode is always one of the three, and three      *)
(* toggles from the mode at hand lead back to it.                          *)
(***************************************************************************)
C9_RepeatAndShuffleToggles ==
  /\ [](st.repeatMode \in {"none", "all", "one"})
  /\ [](NextRepeatMode(NextRepeatMode(NextRepeatMode(st.repeatMode))) = st.repeatMode)
  /\ [][ LET op == hlast'.op
             After == CASE st.repeatMode = "none" -> "all"
                        [] st.repeatMode = "all" -> "one"
                        [] st.repeatMode = "one" -> "none"
         IN  /\ op = "toggleRepeat" =>
                  st' = [st EXCEPT !.repeatMode = After] /\ audio' = audio
             /\ op = "toggleShuffle" =>
                  st' = [st EXCEPT !.isShuffling = ~st.isShuffling] /\ audio' = audio
       ]_<<st, audio, hlast>>

\* The third toggle in a row, made while a track is playing.
C9_Witness ==
  /\ hlast.op = "toggleRepeat"
  /\ st.repeatMode = "none"
  /\ st.isShuffling
  /\ st.isPlaying
  /\ st.currentTrack # NoTrack

(***************************************************************************)
(* C10.  With a non-empty playlist and currentIndex within 0..length-1,    *)
(* handleNext passes (currentIndex + 1) mod length and handlePrevious      *)
(* (currentIndex - 1) mod length to onTrackChange, an index within         *)
(* 0..length-1, and previous undoes next; with an empty playlist nothing   *)
(* is passed; 'ended' on the audio element does what handleNext does.      *)
(***************************************************************************)
C10_NextPreviousWrap ==
  LET n == ap.length
      i == ap.currentIndex
      InRange == n > 0 /\ i \in 0..(n - 1)
      Passed(x) == aplast.reported = IF ap.onTrackChange THEN <<x>> ELSE <<>>
  IN  /\ (InRange /\ aplast.op \in {"handleNext", "ended"}) => Passed((i + 1) % n)
      /\ (InRange /\ aplast.op = "handlePrevious") => Passed((i - 1) % n)
      /\ InRange => \A k \in 1..Len(aplast.reported) : aplast.reported[k] \in 0..(n - 1)
      /\ InRange => handlePreviousIndex(handleNextIndex(i, n), n) = i
      /\ (n = 0 /\ aplast.op \in {"handleNext", "handlePrevious", "ended"}) =>
            aplast.reported = <<>>

\* 'ended' on the last track of a playlist wrapped round to the first.
C10_Witness ==
  /\ aplast.op = "ended"
  /\ ap.length > 1
  /\ ap.currentIndex = ap.length - 1
  /\ aplast.reported = <<0>>

(***************************************************************************)
(* C11.  Right after handleTrackSelect(track): when the track was not the  *)
(* current one, currentTrack is that track and the element has been asked  *)
(* to play it (without which it never plays); when it was the current one, *)
(* currentTrack is unchanged and playback was toggled: paused when         *)
(* isPlaying was true, asked to play otherwise.                            *)
(***************************************************************************)
JustSelected == alast.op = "handleTrackSelect" /\ hlast.op \in {"play", "pause"}

PlayRequested == ~audio.paused /\ audio.plays # <<>> /\ ~audio.plays[Len(audio.plays)]

C11_SelectLoadsAndPlays ==
  JustSelected =>
    /\ st.currentTrack.id = alast.arg
    /\ IF alast.wasCurrent
       THEN IF hlast.op = "pause" THEN audio.paused /\ ~st.isPlaying ELSE PlayRequested
       ELSE PlayRequested

\* What does hold: the track is loaded in every case, playback is toggled
\* for the current track, and another track is asked to play when some
\* track was current before the call.
SelectPlaysUnlessFirst ==
  JustSelected =>
    /\ st.currentTrack.id = alast.arg
    /\ (alast.wasCurrent /\ hlast.op = "pause") => (audio.paused /\ ~st.isPlaying)
    /\ (alast.wasCurrent /\ hlast.op = "play") => PlayRequested
    /\ (~alast.wasCurrent /\ alast.hadTrack) => (PlayRequested /\ st.isLoading)
    /\ (~alast.wasCurrent /\ ~alast.hadTrack) => (audio.paused /\ audio.plays = <<>>)

(***************************************************************************)
(* C12.  After handleTrackDelete(trackId) the track is gone from storage   *)
(* and from the displayed tracks, the handler has not thrown, and when the *)
(* track was the current one playback has been stopped.                    *)
(***************************************************************************)
C12_DeleteRemovesTrack ==
  alast.op = "handleTrackDelete" =>
    /\ ~alast.threw
    /\ alast.arg \notin app.stored
    /\ alast.arg \notin app.tracks
    /\ app.tracks = app.stored

\* What does hold: a track that is not the current one is deleted and the
\* list re-read; for the current track the handler throws before deleting.
DeleteOfOtherTrack ==
  alast.op = "handleTrackDelete" =>
    IF alast.wasCurrent
    THEN alast.threw /\ alast.arg \in app.tracks
    ELSE ~alast.threw /\ alast.arg \notin app.stored /\ app.tracks = app.stored

(***************************************************************************)
(* C13.  After a successful initialize() the manager's gain node is        *)
(* connected to its analyser node and the analyser to the destination.     *)
(* connectAudioElement(el) on an initialized manager leaves the source it  *)
(* held before without connections; when it returns a source, that source  *)
(* is the held one, belongs to el and feeds the gain node.  At all times   *)
(* no source but the held one feeds the manager's gain node.               *)
(***************************************************************************)
SourcesFeedingGain ==
  { k \in 1..Len(web.nodes) : web.nodes[k].kind = "source" /\ <<k, mgr.gainNode>> \in web.edges }

GraphBuilt ==
  /\ mgr.gainNode # 0
  /\ mgr.analyserNode # 0
  /\ <<mgr.gainNode, mgr.analyserNode>> \in web.edges
  /\ <<mgr.analyserNode, 0>> \in web.edges

C13_OneSourceFeedsGain ==
  /\ []((mlast.op = "initialize" /\ ~mlast.threw) => GraphBuilt)
  /\ [](SourcesFeedingGain \subseteq {mgr.sourceNode})
  /\ []((mlast.op = "connectAudioElement" /\ mlast.ret # 0) =>
          /\ mlast.ret = mgr.sourceNode
          /\ web.nodes[mlast.ret].el = mlast.arg
          /\ SourcesFeedingGain = {mlast.ret})
  /\ [][ (mlast'.op = "connectAudioElement" /\ mlast'.arg # 0
            /\ mgr.isInitialized /\ mgr.sourceNode # 0) =>
           \A e \in web'.edges : e[1] # mgr.sourceNode
       ]_<<mgr, web, mlast>>

\* A second element was connected: the first source is still there, cut off.
C13_Witness ==
  /\ mlast.op = "connectAudioElement"
  /\ mlast.ret # 0
  /\ \E k \in 1..Len(web.nodes) :
        /\ web.nodes[k].kind = "source"
        /\ web.nodes[k].ctx = mgr.audioContext
        /\ k # mgr.sourceNode
        /\ \A e \in web.edges : e[1] # k

(***************************************************************************)
(* C14.  initialize() on a manager whose context exists and is not closed  *)
(* returns that context and makes nothing; otherwise it makes a context    *)
(* and the two nodes, or throws 'Audio context initialization failed' when *)
(* the construction fails.  Whenever it has returned, isInitialized is     *)
(* true and the gain and analyser nodes exist.                             *)
(***************************************************************************)
C14_InitializeIsIdempotent ==
  /\ []((mlast.op = "initialize" /\ ~mlast.threw) =>
          /\ mgr.isInitialized
          /\ mgr.gainNode # 0
          /\ mgr.analyserNode # 0
          /\ mlast.ret = mgr.audioContext)
  /\ []((mlast.op = "initialize" /\ mlast.threw) =>
          mlast.ret = "Audio context initialization failed")
  /\ [][ mlast'.op = "initialize" =>
           IF HasLiveContext(mgr, web)
           THEN ~mlast'.threw /\ mlast'.ret = mgr.audioContext /\ mgr' = mgr /\ web' = web
           ELSE IF mlast'.arg
           THEN /\ ~mlast'.threw
                /\ Len(web'.ctxs) = Len(web.ctxs) + 1
                /\ Len(web'.nodes) = Len(web.nodes) + 2
           ELSE mlast'.threw /\ mgr' = mgr /\ web' = web
       ]_<<mgr, web, mlast>>

\* initialize() called again after an element was connected: the context
\* made before is returned.
C14_Witness ==
  /\ mlast.op = "initialize"
  /\ ~mlast.threw
  /\ Len(web.ctxs) = 1
  /\ mgr.sourceNode # 0

(***************************************************************************)
(* C15.  After dispose() the four references are null and isInitialized is *)
(* false.  From then on getState() reports state 'closed' and              *)
(* isInitialized false, connectAudioElement, crossfade and setVolume       *)
(* change nothing, and an initialize() whose construction succeeds makes a *)
(* new context with a new, connected graph and sets isInitialized.         *)
(***************************************************************************)
Disposed ==
  /\ mgr = [audioContext |-> 0, analyserNode |-> 0, gainNode |-> 0, sourceNode |-> 0,
            isInitialized |-> FALSE]
  /\ \A c \in 1..Len(web.ctxs) : web.ctxs[c] = "closed"

C15_DisposeResets ==
  /\ [](mlast.op = "dispose" => Disposed)
  /\ [][ Disposed =>
           /\ mlast'.op = "getState" =>
                mlast'.ret = [state |-> "closed", isInitialized |-> FALSE]
           /\ mlast'.op \in {"connectAudioElement", "crossfade", "setVolume"} =>
                mgr' = mgr /\ web' = web /\ ~mlast'.threw /\ mlast'.ret = 0
           /\ (mlast'.op = "initialize" /\ mlast'.arg) =>
                /\ mlast'.ret = Len(web.ctxs) + 1
                /\ web'.ctxs[mlast'.ret] # "closed"
                /\ mgr'.audioContext = mlast'.ret
                /\ mgr'.isInitialized
                /\ mgr'.gainNode > Len(web.nodes)
                /\ mgr'.analyserNode > Len(web.nodes)
                /\ <<mgr'.gainNode, mgr'.analyserNode>> \in web'.edges
                /\ <<mgr'.analyserNode, 0>> \in web'.edges
                /\ mgr'.sourceNode = 0
       ]_<<mgr, web, mlast>>

\* A manager that was initialized, given an element, disposed and
\* initialized again.
C15_Witness ==
  /\ mlast.op = "initialize"
  /\ ~mlast.threw
  /\ Len(web.ctxs) = 2
  /\ web.ctxs[1] = "closed"
  /\ mgr.isInitialized
  /\ \E k \in 1..Len(web.nodes) : web.nodes[k].kind = "source"

LoadEnded == hlast.op \in {"loadedmetadata", "canplay", "error"}

C17_LoadingFollowsEvents ==
  /\ []((hlast.op = "loadTrack" /\ hlast.arg # NoTrack /\ hlast.arg.url # "") => st.isLoading)
  /\ [](hlast.op = "loadstart" => (st.isLoading /\ st.error = Null))
  /\ [](LoadEnded => ~st.isLoading)
  /\ [](hlast.op = "error" => (~st.isPlaying /\ st.error = "Failed to load audio file"))
  /\ [](st.isLoading => (<>LoadEnded => <>(~st.isLoading)))

\* A load that began with loadTrack and 'loadstart' ended with 'error'.
C17_Witness ==
  /\ hlast.op = "error"
  /\ st.currentTrack # NoTrack
  /\ ~st.isLoading
  /\ ~st.isPlaying
  /\ st.error = "Failed to load audio file"

(***************************************************************************)
(* C18.  After changeVolume(v) the volume state and the element's volume   *)
(* both are min(1, max(0, v)), and the volume state is within [0, 1] at    *)
(* all times, whatever changeVolume, toggleMute and loadTrack calls were   *)
(* made.                                                                   *)
(***************************************************************************)
ClaimedVolume(v) == MathMin(FullVolume, MathMax(0, v))

C18_VolumeClamped ==
  /\ st.volume \in 0..FullVolume
  /\ hlast.op = "changeVolume" =>
       (st.volume = ClaimedVolume(hlast.arg) /\ audio.volume = ClaimedVolume(hlast.arg))

\* What does hold: for a number the clamp is applied to state and element,
\* the element's volume is always within [0, 1], and the state leaves
\* [0, 1] only as NaN, with changeVolume throwing.
VolumeClampedForNumbers ==
  /\ audio.volume \in 0..FullVolume
  /\ st.volume \in 0..FullVolume \/ isNaN(st.volume)
  /\ hlast.op = "changeVolume" =>
       IF isNaN(hlast.arg)
       THEN hlast.threw /\ isNaN(st.volume)
       ELSE /\ ~hlast.threw
            /\ st.volume = ClaimedVolume(hlast.arg)
            /\ audio.volume = ClaimedVolume(hlast.arg)

\* The manager's setVolume: the same clamp on the gain for a number, a
\* TypeError for NaN, nothing without a gain node.
ManagerGainClamped ==
  (mlast.op = "setVolume" /\ mgr.gainNode # 0) =>
    IF isNaN(mlast.arg) THEN mlast.threw
    ELSE ~mlast.threw /\ web.nodes[mgr.gainNode].gain = ClaimedVolume(mlast.arg)

(***************************************************************************)
(* C19.  toggleMute sets the volume state and the element's volume to 0    *)
(* when the element's volume is above 0 and to 1 when it is 0, and changes *)
(* nothing else; so muting and unmuting ends at volume 1 from any volume   *)
(* above 0.                                                                *)
(***************************************************************************)
C19_MuteForgetsVolume ==
  /\ [](audio.volume > 0 => MutedVolume(MutedVolume(audio.volume)) = FullVolume)
  /\ [][ hlast'.op = "toggleMute" =>
           LET v == IF audio.volume > 0 THEN 0 ELSE FullVolume
           IN  /\ st' = [st EXCEPT !.volume = v]
               /\ audio' = [audio EXCEPT !.volume = v]
       ]_<<st, audio, hlast>>

\* An unmute with a track loaded.
C19_Witness ==
  /\ hlast.op = "toggleMute"
  /\ st.volume = FullVolume
  /\ audio.volume = FullVolume
  /\ st.currentTrack # NoTrack
  /\ st.duration > 0

(***************************************************************************)
(* C20.  seekTo(t) changes nothing for a NaN t; otherwise it sets the      *)
(* element's position and currentTime to t clamped into [0, duration].     *)
(* skipForward(s) and skipBackward(s) do the same with t the element's     *)
(* position plus s and minus s.  Nothing else changes.                     *)
(***************************************************************************)
ClampedTime(t, d) == IF t < 0 THEN 0 ELSE IF t > d THEN d ELSE t

C20_SeekAndSkipClamp ==
  [][ LET op == hlast'.op
          SoughtTo(t) == /\ st' = [st EXCEPT !.currentTime = ClampedTime(t, st.duration)]
                         /\ audio' = [audio EXCEPT !.currentTime = ClampedTime(t, st.duration)]
          Nothing == st' = st /\ audio' = audio
      IN  /\ op = "seekTo" =>
               IF isNaN(hlast'.arg) THEN Nothing ELSE SoughtTo(hlast'.arg)
          /\ op = "skipForward" =>
               IF isNaN(hlast'.arg) THEN Nothing
               ELSE SoughtTo(audio.currentTime + hlast'.arg)
          /\ op = "skipBackward" =>
               IF isNaN(hlast'.arg) THEN Nothing
               ELSE SoughtTo(audio.currentTime - hlast'.arg)
    ]_<<st, audio, hlast>>

\* A skip forward by one second inside a track of two seconds.
C20_Witness ==
  /\ hlast.op = "skipForward"
  /\ hlast.arg = 1
  /\ st.duration = 2
  /\ st.currentTime = 1
  /\ audio.currentTime = 1

(***************************************************************************)
(* C21.  Overlapping saveAudioFile calls do not lose each other's writes:  *)
(* when two calls, one made while the other stood at an await, have both   *)
(* returned, the files they returned are both in the list stored under     *)
(* AUDIO_FILES.                                                            *)
(***************************************************************************)
Overlapped(c, d) == c \in calls[d].during \/ d \in calls[c].during

Returned(c) == calls[c].pc = "returned"

\* The entry call c returned is in the stored list.
InStoredList(c) ==
  /\ ls.item["AUDIO_FILES"].t = "json"
  /\ \E i \in 1..Len(ls.item["AUDIO_FILES"].v) :
       ls.item["AUDIO_FILES"].v[i].id = calls[c].ret[1].id

C21_OverlappingSavesKeepBoth ==
  \A c, d \in Callers :
    (c # d /\ Overlapped(c, d) /\ Returned(c) /\ Returned(d))
      => (InStoredList(c) /\ InStoredList(d))

\* What holds of C21: a call resumed from extractMetadata while the
\* availability check passes and the stored list can be parsed writes the
\* list it finds with its entry added, in that one step.  When the check
\* fails there (the store stands within ProbeLen characters of its quota)
\* the call that returns writes a list of its entry alone.
SaveExtendsListWhenAvailable ==
  [][ \A c \in Callers :
        (calls[c].pc = "extractMetadata" /\ calls'[c].pc = "returned")
          => ls'.item["AUDIO_FILES"].v =
               IF checkStorageAvailability(ls) /\ ls.item["AUDIO_FILES"].t = "json"
               THEN Append(ls.item["AUDIO_FILES"].v, JsonRoundTrip(calls'[c].ret[1]))
               ELSE <<JsonRoundTrip(calls'[c].ret[1])>>
    ]_<<ls, calls>>

\* Two overlapping calls returned and both files are stored.
BothSavesStored ==
  \E c, d \in Callers :
    /\ c # d /\ Overlapped(c, d) /\ Returned(c) /\ Returned(d)
    /\ InStoredList(c) /\ InStoredList(d)

====
